---- MODULE Spec2Model ----
(***************************************************************************)
(* PQC-Edge-Attestor: the attestation engine (attestation_engine.c), the   *)
(* simulated TPM PCR bank (tmp2_interface.c), the Dilithium signing loop   *)
(* and verifier (dilithium.c) and the Kyber KEM (kyber.c) as state         *)
(* machines.                                                               *)
(*                                                                         *)
(* Byte strings are sequences of tokens and concatenation is \o.  A hash    *)
(* output is the bracketed term <<name, "(", input..., ")">>: two digests  *)
(* are equal exactly when they were taken by the same function over the    *)
(* same input (the collision-free reading of SHA-3/SHAKE).                 *)
(*                                                                         *)
(* Integers wider than TLC's are kept in 16-bit limbs, least significant   *)
(* first: a uint32_t is <<l0, l1>>, a uint64_t is <<l0, l1, l2, l3>>.      *)
(***************************************************************************)
EXTENDS Integers, Sequences, FiniteSets, TLC

VARIABLES
    g_attestation_initialized,  \* attestation_engine.c: static flag
    g_attestation_ctx,          \* attestation_engine.c: static context
    tpm_state,                  \* tmp2_interface.c: simulated TPM (+ history of extends)
    clock,                      \* what time(NULL) returns on the device
    stack_junk,                 \* content of never-written stack bytes
    n_inits,                    \* number of key generations so far (bounded)
    pc,                         \* "idle", or "sign" while dilithium_sign runs
    sgn,                        \* frame of the running dilithium_sign call
    report,                     \* the caller's attestation_report_t buffer
    ret,                        \* last API call and its return value
    vfy,                        \* verifier: inputs and result of attestation_verify_report
    kem,                        \* KEM: a keypair/encapsulate/decapsulate run
    keccak                      \* cryptoHash.c: a sha3_256_enhanced call and its keccak_state_t

vars == <<g_attestation_initialized, g_attestation_ctx, tpm_state, clock, stack_junk,
          n_inits, pc, sgn, report, ret, vfy, kem, keccak>>

attVars == <<g_attestation_initialized, g_attestation_ctx, tpm_state, clock, stack_junk,
             n_inits, pc, sgn, report, ret>>

----------------------------------------------------------------------------
(* Program constants *)

MAX_PCR_REGISTERS == 8
MAX_MEASUREMENT_LOG_ENTRIES == 256
MAX_MEASUREMENTS_PER_REPORT == 32
ATTESTATION_REPORT_VERSION == 1
DEVICE_ID_LENGTH == 32
MEASUREMENT_TYPE_MAX == 8
TRUST_LEVEL_UNKNOWN == 0
TRUST_LEVEL_HIGH == 3

PCR_FIRMWARE_HASH == 0
PCR_CONFIG_HASH == 1
PCR_RUNTIME_HASH == 2
PCR_KEYS_HASH == 3
PCR_DEVICE_ID == 5

MEASUREMENT_TYPE_FIRMWARE == 0
MEASUREMENT_TYPE_CONFIGURATION == 1
MEASUREMENT_TYPE_RUNTIME == 2
MEASUREMENT_TYPE_KEYS == 3
MEASUREMENT_TYPE_DEVICE_IDENTITY == 5

DILITHIUM_K == 8
DILITHIUM_L == 7
DILITHIUM_N == 256
DILITHIUM_BETA == 196
DILITHIUM_GAMMA1 == 524288
DILITHIUM_OMEGA == 75
DILITHIUM_SIGNATUREBYTES == 4595

ATTESTATION_ERROR_NONE == 0
ATTESTATION_ERROR_INVALID_FORMAT == 1
ATTESTATION_ERROR_SIGNATURE_INVALID == 2
ATTESTATION_ERROR_TIMESTAMP_INVALID == 3
ATTESTATION_ERROR_INVALID_PCR == 4
ATTESTATION_ERROR_INVALID_MEASUREMENT == 5

ClockSkew == 300

(* Bounds of the model *)

MaxCollects == 53       \* collect calls per session: 52 fill the 256-entry log
MaxInits == 2           \* key generations (sessions) per run
MaxExtends == 3         \* direct extends of one register of the TPM
NonceSpace == 3         \* the signing loop's counter as the sampler sees it: the
                        \* code truncates it to uint16_t, the model to this many values

PcrIndex == 0 .. (MAX_PCR_REGISTERS - 1)

----------------------------------------------------------------------------
(* Byte-string terms *)

Term(name, args) == <<name, "(">> \o args \o <<")">>

\* a zeroed buffer
ZeroBytes == <<"zero">>

\* 32 zero bytes
Zero32 == <<"zero32">>

sha3_256(input) == Term("sha3_256", input)

sha3_512(input) == Term("sha3_512", input)

shake256(input, custom) == Term("shake256", input \o <<";">> \o custom)

shake128(input) == Term("shake128", input)

calculate_sha256(data) == sha3_256(data)

----------------------------------------------------------------------------
(* 64-bit and 32-bit words in 16-bit limbs *)

Limb == 2^16

\* the uint32_t of a number below 2^31
U32(n) == <<n % Limb, n \div Limb>>

U64(l0, l1, l2, l3) == <<l0, l1, l2, l3>>

\* a - b modulo 2^(16 * Len(a)), limb by limb with borrow
RECURSIVE SubLimbs(_, _, _)
SubLimbs(a, b, borrow) ==
    IF a = <<>> THEN <<>>
    ELSE LET d == Head(a) - Head(b) - borrow
         IN  <<d % Limb>> \o SubLimbs(Tail(a), Tail(b), IF d < 0 THEN 1 ELSE 0)

\* a + b modulo 2^(16 * Len(a))
RECURSIVE AddLimbs(_, _, _)
AddLimbs(a, b, carry) ==
    IF a = <<>> THEN <<>>
    ELSE LET s == Head(a) + Head(b) + carry
         IN  <<s % Limb>> \o AddLimbs(Tail(a), Tail(b), s \div Limb)

\* a < b as unsigned numbers
RECURSIVE LtLimbs(_, _)
LtLimbs(a, b) ==
    IF a = <<>> THEN FALSE
    ELSE LET n == Len(a)
         IN  \/ a[n] < b[n]
             \/ a[n] = b[n] /\ LtLimbs(SubSeq(a, 1, n - 1), SubSeq(b, 1, n - 1))

LeLimbs(a, b) == a = b \/ LtLimbs(a, b)

----------------------------------------------------------------------------
(* Result codes (pqc_result_t) *)

PQC_SUCCESS == "PQC_SUCCESS"
PQC_ERROR_INVALID_PARAMETER == "PQC_ERROR_INVALID_PARAMETER"
PQC_ERROR_RANDOM_GENERATION == "PQC_ERROR_RANDOM_GENERATION"
PQC_ERROR_INVALID_SIGNATURE == "PQC_ERROR_INVALID_SIGNATURE"
PQC_ERROR_HARDWARE_FAILURE == "PQC_ERROR_HARDWARE_FAILURE"

----------------------------------------------------------------------------
(* The simulated TPM: tmp2_interface.c *)

\* Static zero initialisation of tpm_state.  extended[i] is a history
\* variable: the measurements extended into register i since tpm2_init.
\* next_handle is the static counter of tpm2_create_key, as the number of
\* handles issued since 0x80000001.
TpmZero ==
    [initialized   |-> FALSE,
     pcr_values    |-> [i \in PcrIndex |-> Zero32],
     pcr_allocated |-> [i \in PcrIndex |-> FALSE],
     extend_count  |-> [i \in PcrIndex |-> 0],
     extended      |-> [i \in PcrIndex |-> <<>>],
     next_handle   |-> 0]

tpm2_init(tpm) ==
    IF tpm.initialized THEN [rc |-> PQC_SUCCESS, tpm |-> tpm]
    ELSE [rc  |-> PQC_SUCCESS,
          tpm |-> [initialized   |-> TRUE,
                   pcr_values    |-> [i \in PcrIndex |-> Zero32],
                   pcr_allocated |-> [i \in PcrIndex |-> TRUE],
                   extend_count  |-> [i \in PcrIndex |-> 0],
                   extended      |-> [i \in PcrIndex |-> <<>>],
                   next_handle   |-> tpm.next_handle]]

tpm2_cleanup(tpm) ==
    IF ~tpm.initialized THEN tpm
    ELSE [initialized   |-> FALSE,
          pcr_values    |-> [i \in PcrIndex |-> Zero32],
          pcr_allocated |-> [i \in PcrIndex |-> FALSE],
          extend_count  |-> [i \in PcrIndex |-> 0],
          extended      |-> [i \in PcrIndex |-> <<>>],
          next_handle   |-> tpm.next_handle]

tpm2_get_extend_count(tpm, pcr_index) ==
    IF ~tpm.initialized \/ pcr_index >= MAX_PCR_REGISTERS THEN 0
    ELSE tpm.extend_count[pcr_index]

\* A read that masks the register number into range instead of rejecting it.
tpm2_read_pcr_masked(tpm, pcr_index) ==
    IF ~tpm.initialized THEN [rc |-> PQC_ERROR_HARDWARE_FAILURE, value |-> ZeroBytes]
    ELSE IF ~tpm.pcr_allocated[pcr_index % MAX_PCR_REGISTERS]
         THEN [rc |-> PQC_ERROR_HARDWARE_FAILURE, value |-> ZeroBytes]
    ELSE [rc |-> PQC_SUCCESS, value |-> tpm.pcr_values[pcr_index % MAX_PCR_REGISTERS]]

tpm2_read_pcr(tpm, pcr_index) ==
    IF ~tpm.initialized THEN [rc |-> PQC_ERROR_HARDWARE_FAILURE, value |-> ZeroBytes]
    ELSE IF pcr_index >= MAX_PCR_REGISTERS
         THEN [rc |-> PQC_ERROR_INVALID_PARAMETER, value |-> ZeroBytes]
    ELSE IF ~tpm.pcr_allocated[pcr_index]
         THEN [rc |-> PQC_ERROR_HARDWARE_FAILURE, value |-> ZeroBytes]
    ELSE [rc |-> PQC_SUCCESS, value |-> tpm.pcr_values[pcr_index]]

\* A reset that clears the whole bank.
tmp2_reset_pcr_all(tpm, pcr_index) ==
    IF ~tpm.initialized \/ pcr_index >= MAX_PCR_REGISTERS THEN tpm
    ELSE [tpm EXCEPT !.pcr_values = [i \in PcrIndex |-> Zero32],
                     !.extend_count = [i \in PcrIndex |-> 0],
                     !.extended = [i \in PcrIndex |-> <<>>]]

tmp2_reset_pcr(tpm, pcr_index) ==
    IF ~tpm.initialized \/ pcr_index >= MAX_PCR_REGISTERS THEN tpm
    ELSE [tpm EXCEPT !.pcr_values[pcr_index] = Zero32,
                     !.extend_count[pcr_index] = 0,
                     !.extended[pcr_index] = <<>>]

\* An extend that hashes the measurement in front of the old value.
tmp2_extend_pcr_swapped(tpm, pcr_index, measurement) ==
    IF ~tpm.initialized THEN [rc |-> PQC_ERROR_HARDWARE_FAILURE, tpm |-> tpm]
    ELSE IF pcr_index >= MAX_PCR_REGISTERS
         THEN [rc |-> PQC_ERROR_INVALID_PARAMETER, tpm |-> tpm]
    ELSE IF ~tpm.pcr_allocated[pcr_index]
         THEN [rc |-> PQC_ERROR_HARDWARE_FAILURE, tpm |-> tpm]
    ELSE [rc  |-> PQC_SUCCESS,
          tpm |-> [tpm EXCEPT
                     !.pcr_values[pcr_index] =
                         sha3_256(measurement \o tpm.pcr_values[pcr_index]),
                     !.extend_count[pcr_index] = @ + 1,
                     !.extended[pcr_index] = Append(@, measurement)]]

\* tmp2_interface.c spells the function tmp2_extend_pcr; the engine's call
\* to tpm2_extend_pcr (attestation_engine.c:72) resolves to this body, the
\* only extend the sources contain.
tmp2_extend_pcr(tpm, pcr_index, measurement) ==
    IF ~tpm.initialized THEN [rc |-> PQC_ERROR_HARDWARE_FAILURE, tpm |-> tpm]
    ELSE IF pcr_index >= MAX_PCR_REGISTERS
         THEN [rc |-> PQC_ERROR_INVALID_PARAMETER, tpm |-> tpm]
    ELSE IF ~tpm.pcr_allocated[pcr_index]
         THEN [rc |-> PQC_ERROR_HARDWARE_FAILURE, tpm |-> tpm]
    ELSE [rc  |-> PQC_SUCCESS,
          tpm |-> [tpm EXCEPT
                     !.pcr_values[pcr_index] =
                         sha3_256(tpm.pcr_values[pcr_index] \o measurement),
                     !.extend_count[pcr_index] = @ + 1,
                     !.extended[pcr_index] = Append(@, measurement)]]

\* tpm2_create_key for one of the three key types: the next handle is issued.
tpm2_create_key(tpm) ==
    IF ~tpm.initialized THEN [rc |-> PQC_ERROR_HARDWARE_FAILURE, tpm |-> tpm]
    ELSE [rc |-> PQC_SUCCESS, tpm |-> [tpm EXCEPT !.next_handle = @ + 1]]

\* memset(test_measurement, 0xAA, 32)
TestMeasurement == <<"0xAA*32">>

\* tpm2_self_test: extends register 7 and creates a key; the mock signature it
\* then makes and verifies is a function of the data and the handle, so
\* tpm2_sign, tpm2_verify and tpm2_unload_key succeed on an initialised TPM.
tpm2_self_test(tpm) ==
    IF ~tpm.initialized THEN [rc |-> PQC_ERROR_HARDWARE_FAILURE, tpm |-> tpm]
    ELSE LET original == tpm2_read_pcr(tpm, 7) IN
         IF original.rc # PQC_SUCCESS THEN [rc |-> original.rc, tpm |-> tpm]
         ELSE LET ex == tmp2_extend_pcr(tpm, 7, TestMeasurement) IN
              IF ex.rc # PQC_SUCCESS THEN [rc |-> ex.rc, tpm |-> ex.tpm]
              ELSE LET new == tpm2_read_pcr(ex.tpm, 7) IN
                   IF new.rc # PQC_SUCCESS THEN [rc |-> new.rc, tpm |-> ex.tpm]
                   ELSE IF original.value = new.value
                        THEN [rc |-> PQC_ERROR_HARDWARE_FAILURE, tpm |-> ex.tpm]
                   ELSE tpm2_create_key(ex.tpm)

----------------------------------------------------------------------------
(* Dilithium key generation: dilithium.c *)

\* A 96-byte draw of the random source, as its three 32-byte parts.
Seeds == { <<"r1", "r2", "r3">>, <<"r4", "r5", "r6">> }

StackJunk == { "j0", "j1" }

ZeroPk == [rho |-> ZeroBytes, t1 |-> <<>>]

\* the byte string of a public key
PackPk(pk) == pk.rho \o Term("t1", pk.t1)

ZeroSk == [rho |-> ZeroBytes, key |-> ZeroBytes, tr |-> ZeroBytes,
           s1 |-> ZeroBytes, s2 |-> ZeroBytes, t0 |-> ZeroBytes]

\* poly_uniform fills at most 56 of the 256 coefficients from its 168-byte
\* buffer; the others keep what the stack held.
ExpandA(rho, stk) == Term("A", rho \o <<stk>>)

\* pk->t1 is OR-ed into the caller's buffer: the bits of an earlier key stay.
\* The sequence of packed values OR-ed so far stands for their bitwise OR.
dilithium_keypair(pk, seed, stk) ==
    LET rho      == shake256(<<seed[1]>>, <<>>)
        rhoprime == shake256(<<seed[2]>>, <<>>)
        key      == <<seed[3]>>
        A        == ExpandA(rho, stk)
        s1       == Term("s1", rhoprime \o <<stk>>)
        s2       == Term("s2", rhoprime \o <<stk>>)
        t        == Term("As1+s2", A \o s1 \o s2)
        newpk    == [rho |-> rho, t1 |-> pk.t1 \o Term("|=", t)]
    IN  [rc |-> PQC_SUCCESS,
         pk |-> newpk,
         sk |-> [rho |-> rho, key |-> key, tr |-> shake256(PackPk(newpk), <<>>),
                 s1 |-> s1, s2 |-> s2, t0 |-> Term("t0", t)]]

----------------------------------------------------------------------------
(* The attestation context: attestation_engine.c *)

\* Serial numbers as character sequences (strlen = Len).
Serials == { <<>>, <<"u", "1">>, <<"s", "n", "2">> }

Configs == [device_type : {1}, device_serial : Serials]

ZeroConfig == [device_type |-> 0, device_serial |-> <<>>]

ZeroLog == [count |-> 0, capacity |-> 0, measurements |-> <<>>]

CtxZero ==
    [config               |-> ZeroConfig,
     device_info          |-> [serial_number |-> <<>>, device_type |-> 0,
                               hardware_version |-> 0, firmware_version |-> 0],
     device_keypair       |-> [pk |-> ZeroPk, sk |-> ZeroSk],
     device_keypair_valid |-> FALSE,
     pcr_values           |-> [i \in PcrIndex |-> Zero32],
     pcr_valid            |-> [i \in PcrIndex |-> FALSE],
     measurement_log      |-> ZeroLog]

\* The running state of a collect call: st.ctx and st.tpm are the globals,
\* st.measurement the one stack structure all five collectors write into.
extend_pcr(st, pcr_index, measurement) ==
    IF pcr_index >= MAX_PCR_REGISTERS THEN [st EXCEPT !.rc = PQC_ERROR_INVALID_PARAMETER]
    ELSE LET rd == tpm2_read_pcr(st.tpm, pcr_index)
         IN  IF rd.rc # PQC_SUCCESS THEN [st EXCEPT !.rc = rd.rc]
             ELSE LET new_pcr == calculate_sha256(rd.value \o measurement)
                      ex      == tmp2_extend_pcr(st.tpm, pcr_index, measurement)
                  IN  IF ex.rc # PQC_SUCCESS THEN [st EXCEPT !.rc = ex.rc]
                      ELSE [st EXCEPT !.rc = PQC_SUCCESS,
                                      !.tpm = ex.tpm,
                                      !.ctx.pcr_values[pcr_index] = new_pcr,
                                      !.ctx.pcr_valid[pcr_index] = TRUE]

SetMeasurement(st, pcr_index, type, value, now) ==
    [st EXCEPT !.measurement.pcr_index = pcr_index,
               !.measurement.measurement_type = type,
               !.measurement.timestamp = now,
               !.measurement.measurement_value = value]

collect_firmware_measurement(st, now) ==
    LET value == calculate_sha256(<<"PQC-Edge-Attestor-v1.0.0">>)
        s     == SetMeasurement(st, PCR_FIRMWARE_HASH, MEASUREMENT_TYPE_FIRMWARE, value, now)
    IN  extend_pcr(s, PCR_FIRMWARE_HASH, value)

collect_config_measurement(st, now) ==
    LET value == calculate_sha256(<<"device_config_t{6,5,1,60,0}">>)
        s     == SetMeasurement(st, PCR_CONFIG_HASH, MEASUREMENT_TYPE_CONFIGURATION, value, now)
    IN  extend_pcr(s, PCR_CONFIG_HASH, value)

collect_runtime_measurement(st, now) ==
    LET value == calculate_sha256(<<"runtime-v1.0.0-secure-mode-enabled">>)
        s     == SetMeasurement(st, PCR_RUNTIME_HASH, MEASUREMENT_TYPE_RUNTIME, value, now)
    IN  extend_pcr(s, PCR_RUNTIME_HASH, value)

collect_keys_measurement(st, now) ==
    LET value == IF st.ctx.device_keypair_valid
                 THEN calculate_sha256(PackPk(st.ctx.device_keypair.pk))
                 ELSE Zero32
        s     == SetMeasurement(st, PCR_KEYS_HASH, MEASUREMENT_TYPE_KEYS, value, now)
    IN  extend_pcr(s, PCR_KEYS_HASH, value)

collect_device_id_measurement(st, now) ==
    LET serial == st.ctx.device_info.serial_number
        value  == IF Len(serial) > 0
                  THEN calculate_sha256(serial)
                  ELSE calculate_sha256(<<"stm32l5-cortex-m33-tpm2.0">>)
        s      == SetMeasurement(st, PCR_DEVICE_ID, MEASUREMENT_TYPE_DEVICE_IDENTITY, value, now)
    IN  extend_pcr(s, PCR_DEVICE_ID, value)

\* A log that starts over with the new entry when it is full.
AddToLog_restart(st) ==
    IF st.ctx.measurement_log.count < MAX_MEASUREMENT_LOG_ENTRIES
    THEN [st EXCEPT !.ctx.measurement_log.measurements = Append(@, st.measurement),
                    !.ctx.measurement_log.count = @ + 1]
    ELSE [st EXCEPT !.ctx.measurement_log.measurements = <<st.measurement>>,
                    !.ctx.measurement_log.count = 1]

\* "Add to measurement log": the entry is dropped when the log is full.
AddToLog(st) ==
    IF st.ctx.measurement_log.count < MAX_MEASUREMENT_LOG_ENTRIES
    THEN [st EXCEPT !.ctx.measurement_log.measurements = Append(@, st.measurement),
                    !.ctx.measurement_log.count = @ + 1]
    ELSE st

\* A collect that takes the keys measurement before the runtime measurement.
RunCollectors_keys_first(st, now) ==
    LET a == collect_firmware_measurement(st, now) IN
    IF a.rc # PQC_SUCCESS THEN a ELSE
    LET b == collect_config_measurement(AddToLog(a), now) IN
    IF b.rc # PQC_SUCCESS THEN b ELSE
    LET c == collect_keys_measurement(AddToLog(b), now) IN
    IF c.rc # PQC_SUCCESS THEN c ELSE
    LET d == collect_runtime_measurement(AddToLog(c), now) IN
    IF d.rc # PQC_SUCCESS THEN d ELSE
    LET e == collect_device_id_measurement(AddToLog(d), now) IN
    IF e.rc # PQC_SUCCESS THEN e ELSE
    [AddToLog(e) EXCEPT !.rc = PQC_SUCCESS]

\* The body of attestation_collect_measurements after the initialised check.
RunCollectors(st, now) ==
    LET a == collect_firmware_measurement(st, now) IN
    IF a.rc # PQC_SUCCESS THEN a ELSE
    LET b == collect_config_measurement(AddToLog(a), now) IN
    IF b.rc # PQC_SUCCESS THEN b ELSE
    LET c == collect_runtime_measurement(AddToLog(b), now) IN
    IF c.rc # PQC_SUCCESS THEN c ELSE
    LET d == collect_keys_measurement(AddToLog(c), now) IN
    IF d.rc # PQC_SUCCESS THEN d ELSE
    LET e == collect_device_id_measurement(AddToLog(d), now) IN
    IF e.rc # PQC_SUCCESS THEN e ELSE
    [AddToLog(e) EXCEPT !.rc = PQC_SUCCESS]

\* The uninitialised platform_measurement_t on the stack of collect.
JunkMeasurement(junk) ==
    [pcr_index |-> 0, measurement_type |-> 0, measurement_value |-> <<junk>>,
     timestamp |-> <<0, 0, 0, 0>>, measurement_size |-> junk, description |-> junk]


----------------------------------------------------------------------------
(* Reports and signatures *)

\* A signature buffer: the challenge c, the packed z (with the value of its
\* first coefficient kept apart) and the number of hint bytes.
ZeroSig == [c |-> Zero32, z0 |-> U32(0), z |-> ZeroBytes, nhints |-> 0]

ZeroReport ==
    [device_id         |-> <<>>,
     timestamp         |-> U64(0, 0, 0, 0),
     report_version    |-> 0,
     measurement_count |-> 0,
     pcr_values        |-> [i \in PcrIndex |-> Zero32],
     measurements      |-> <<>>,
     signature_length  |-> 0,
     signature         |-> ZeroSig]

Min(a, b) == IF a < b THEN a ELSE b

\* The bytes hashed by build and by verify: the first
\* sizeof(attestation_report_t) - sizeof(report->signature) bytes of the
\* structure, that is every field in front of the signature.
ReportRegion(r) ==
    [device_id         |-> r.device_id,
     timestamp         |-> r.timestamp,
     report_version    |-> r.report_version,
     measurement_count |-> r.measurement_count,
     pcr_values        |-> r.pcr_values,
     measurements      |-> r.measurements,
     signature_length  |-> r.signature_length]

ReportHash(r) == calculate_sha256(<<ToString(ReportRegion(r))>>)

\* A fill that takes the newest entries of the log instead of the oldest.
FillReport_newest(ctx, now) ==
    LET count == ctx.measurement_log.count
        measurements_to_copy == IF count > MAX_MEASUREMENTS_PER_REPORT
                                THEN MAX_MEASUREMENTS_PER_REPORT ELSE count
    IN  [device_id         |-> SubSeq(ctx.device_info.serial_number, 1,
                                      Min(Len(ctx.device_info.serial_number), DEVICE_ID_LENGTH)),
         timestamp         |-> now,
         report_version    |-> ATTESTATION_REPORT_VERSION,
         measurement_count |-> count,
         pcr_values        |-> [i \in PcrIndex |-> IF ctx.pcr_valid[i] THEN ctx.pcr_values[i]
                                                   ELSE Zero32],
         measurements      |-> SubSeq(ctx.measurement_log.measurements,
                                      count - measurements_to_copy + 1, count),
         signature_length  |-> 0,
         signature         |-> ZeroSig]

\* attestation_generate_report up to the call of dilithium_sign: the report
\* as it is when its hash is taken.
FillReport(ctx, now) ==
    LET count == ctx.measurement_log.count
        measurements_to_copy == IF count > MAX_MEASUREMENTS_PER_REPORT
                                THEN MAX_MEASUREMENTS_PER_REPORT ELSE count
    IN  [device_id         |-> SubSeq(ctx.device_info.serial_number, 1,
                                      Min(Len(ctx.device_info.serial_number), DEVICE_ID_LENGTH)),
         timestamp         |-> now,
         report_version    |-> ATTESTATION_REPORT_VERSION,
         measurement_count |-> count,
         pcr_values        |-> [i \in PcrIndex |-> IF ctx.pcr_valid[i] THEN ctx.pcr_values[i]
                                                   ELSE Zero32],
         measurements      |-> SubSeq(ctx.measurement_log.measurements, 1, measurements_to_copy),
         signature_length  |-> 0,
         signature         |-> ZeroSig]

----------------------------------------------------------------------------
(* The signing loop: dilithium_sign *)

NoFrame == [caller |-> "none", message |-> <<>>, mu |-> <<>>, rhoprime |-> <<>>, nonce |-> 0]

\* what pqc_randombytes delivers for rhoprime
SignSeeds == { "rp1" }

\* the 20-bit values t of poly_uniform_gamma1
GammaDraws == { U32(0), U32(DILITHIUM_GAMMA1), U32(2^20 - 1) }

\* a coefficient of poly_uniform_gamma1: GAMMA1 - t in uint32_t
poly_uniform_gamma1(t) == SubLimbs(U32(DILITHIUM_GAMMA1), t, 0)

\* coefficients of c*s1 after invntt: any uint32_t
Cs1Coeffs == { U32(0), U32(1), <<Limb - 1, Limb - 1>> }

\* z[i][j] >= GAMMA1 - BETA || z[i][j] <= -(GAMMA1 - BETA) with z a uint32_t:
\* both constants are converted to unsigned.
ZOutOfRange(z) ==
    \/ LeLimbs(U32(DILITHIUM_GAMMA1 - DILITHIUM_BETA), z)
    \/ LeLimbs(z, SubLimbs(U32(0), U32(DILITHIUM_GAMMA1 - DILITHIUM_BETA), 0))

\* hint counts the loop can see
HintCounts == { 0, DILITHIUM_OMEGA, DILITHIUM_OMEGA + 1 }

\* 32 bytes of c and 3 bytes for each of the L*N coefficients of z
PackedZEnd == 32 + 3 * DILITHIUM_L * DILITHIUM_N

\* The preamble of dilithium_sign: mu and rhoprime.
SignFrame(caller, message, sk, rp) ==
    [caller |-> caller, message |-> message, mu |-> shake256(sk.tr, message),
     rhoprime |-> <<rp>>, nonce |-> 0]

\* w1 of one iteration: HighBits(A*y) for the y sampled at this nonce
SignW1(sk, frame, stk) ==
    Term("HighBits", ExpandA(sk.rho, stk) \o Term("y", frame.rhoprime \o <<ToString(frame.nonce)>>))

SignChallenge(sk, frame, stk) == shake256(frame.mu, SignW1(sk, frame, stk))


----------------------------------------------------------------------------
(* The attestation engine's operations *)

DeviceClocks == { U64(1000, 0, 1, 0) }

NoVerify == [called |-> FALSE]

NoKem == [stage |-> "none"]

(* No hash call is in progress. *)
NoKeccak == [phase |-> "none"]

Init ==
    /\ g_attestation_initialized = FALSE
    /\ g_attestation_ctx = CtxZero
    /\ tpm_state = TpmZero
    /\ clock \in DeviceClocks
    /\ stack_junk \in StackJunk
    /\ n_inits = 0
    /\ keccak = NoKeccak
    /\ pc = "idle"
    /\ sgn = NoFrame
    /\ report = ZeroReport
    /\ ret = [op |-> "none", rc |-> PQC_SUCCESS]
    /\ vfy = NoVerify
    /\ kem = NoKem

\* An init that stores the configuration it is passed also when the engine
\* is already initialised.
attestation_init_reconfigures ==
    /\ pc = "idle"
    /\ \E config_null \in BOOLEAN :
         IF config_null
         THEN /\ ret' = [op |-> "attestation_init", rc |-> PQC_ERROR_INVALID_PARAMETER,
                         config_null |-> TRUE]
              /\ UNCHANGED <<g_attestation_initialized, g_attestation_ctx, tpm_state, n_inits>>
         ELSE IF g_attestation_initialized
         THEN /\ ret' = [op |-> "attestation_init", rc |-> PQC_SUCCESS,
                         config_null |-> FALSE]
              /\ \E config \in Configs :
                   g_attestation_ctx' = [g_attestation_ctx EXCEPT !.config = config]
              /\ UNCHANGED <<g_attestation_initialized, tpm_state, n_inits>>
         ELSE \E config \in Configs, seed \in Seeds :
              /\ n_inits < MaxInits
              /\ LET ctx == g_attestation_ctx
                     kp  == dilithium_keypair(ctx.device_keypair.pk, seed, stack_junk)
                 IN  g_attestation_ctx' =
                       [ctx EXCEPT
                          !.config = config,
                          !.device_info.serial_number =
                              IF Len(config.device_serial) > 0 THEN config.device_serial ELSE @,
                          !.device_info.device_type = config.device_type,
                          !.device_info.hardware_version = 1,
                          !.device_info.firmware_version = 1,
                          !.pcr_values = [i \in PcrIndex |-> Zero32],
                          !.pcr_valid = [i \in PcrIndex |-> FALSE],
                          !.device_keypair = IF ctx.device_keypair_valid THEN @
                                             ELSE [pk |-> kp.pk, sk |-> kp.sk],
                          !.device_keypair_valid = TRUE,
                          !.measurement_log.count = 0,
                          !.measurement_log.capacity = MAX_MEASUREMENT_LOG_ENTRIES]
              /\ tpm_state' = tpm2_init(tpm_state).tpm
              /\ g_attestation_initialized' = TRUE
              /\ n_inits' = n_inits + 1
              /\ ret' = [op |-> "attestation_init", rc |-> PQC_SUCCESS,
                         config_null |-> FALSE]
    /\ UNCHANGED <<clock, stack_junk, pc, sgn, report, vfy, kem, keccak>>

\* attestation_init(config); config_null: the caller passes NULL.
attestation_init ==
    /\ pc = "idle"
    /\ \E config_null \in BOOLEAN :
         IF config_null
         THEN /\ ret' = [op |-> "attestation_init", rc |-> PQC_ERROR_INVALID_PARAMETER,
                         config_null |-> TRUE]
              /\ UNCHANGED <<g_attestation_initialized, g_attestation_ctx, tpm_state, n_inits>>
         ELSE IF g_attestation_initialized
         THEN /\ ret' = [op |-> "attestation_init", rc |-> PQC_SUCCESS,
                         config_null |-> FALSE]
              /\ UNCHANGED <<g_attestation_initialized, g_attestation_ctx, tpm_state, n_inits>>
         ELSE \E config \in Configs, seed \in Seeds :
              /\ n_inits < MaxInits
              /\ LET ctx == g_attestation_ctx
                     kp  == dilithium_keypair(ctx.device_keypair.pk, seed, stack_junk)
                 IN  g_attestation_ctx' =
                       [ctx EXCEPT
                          !.config = config,
                          !.device_info.serial_number =
                              IF Len(config.device_serial) > 0 THEN config.device_serial ELSE @,
                          !.device_info.device_type = config.device_type,
                          !.device_info.hardware_version = 1,
                          !.device_info.firmware_version = 1,
                          !.pcr_values = [i \in PcrIndex |-> Zero32],
                          !.pcr_valid = [i \in PcrIndex |-> FALSE],
                          !.device_keypair = IF ctx.device_keypair_valid THEN @
                                             ELSE [pk |-> kp.pk, sk |-> kp.sk],
                          !.device_keypair_valid = TRUE,
                          !.measurement_log.count = 0,
                          !.measurement_log.capacity = MAX_MEASUREMENT_LOG_ENTRIES]
              /\ tpm_state' = tpm2_init(tpm_state).tpm
              /\ g_attestation_initialized' = TRUE
              /\ n_inits' = n_inits + 1
              /\ ret' = [op |-> "attestation_init", rc |-> PQC_SUCCESS,
                         config_null |-> FALSE]
    /\ UNCHANGED <<clock, stack_junk, pc, sgn, report, vfy, kem, keccak>>

\* A cleanup that drops the key pair's valid flag without wiping the key.
attestation_cleanup_keeps_key ==
    /\ pc = "idle"
    /\ IF ~g_attestation_initialized
       THEN UNCHANGED <<g_attestation_initialized, g_attestation_ctx, tpm_state>>
       ELSE /\ g_attestation_ctx' =
                 [g_attestation_ctx EXCEPT
                    !.device_keypair_valid = FALSE,
                    !.pcr_values = [i \in PcrIndex |-> Zero32],
                    !.pcr_valid = [i \in PcrIndex |-> FALSE],
                    !.measurement_log = ZeroLog]
            /\ tpm_state' = tpm2_cleanup(tpm_state)
            /\ g_attestation_initialized' = FALSE
    /\ ret' = [op |-> "attestation_cleanup", rc |-> PQC_SUCCESS]
    /\ UNCHANGED <<clock, stack_junk, n_inits, pc, sgn, report, vfy, kem, keccak>>

attestation_cleanup ==
    /\ pc = "idle"
    /\ IF ~g_attestation_initialized
       THEN UNCHANGED <<g_attestation_initialized, g_attestation_ctx, tpm_state>>
       ELSE /\ g_attestation_ctx' =
                 [g_attestation_ctx EXCEPT
                    !.device_keypair.sk = IF g_attestation_ctx.device_keypair_valid
                                          THEN ZeroSk ELSE @,
                    !.device_keypair_valid = FALSE,
                    !.pcr_values = [i \in PcrIndex |-> Zero32],
                    !.pcr_valid = [i \in PcrIndex |-> FALSE],
                    !.measurement_log = ZeroLog]
            /\ tpm_state' = tpm2_cleanup(tpm_state)
            /\ g_attestation_initialized' = FALSE
    /\ ret' = [op |-> "attestation_cleanup", rc |-> PQC_SUCCESS]
    /\ UNCHANGED <<clock, stack_junk, n_inits, pc, sgn, report, vfy, kem, keccak>>

attestation_collect_measurements ==
    /\ pc = "idle"
    /\ IF ~g_attestation_initialized
       THEN /\ ret' = [op |-> "attestation_collect_measurements",
                       rc |-> PQC_ERROR_INVALID_PARAMETER]
            /\ UNCHANGED <<g_attestation_ctx, tpm_state>>
       ELSE /\ tpm_state.extend_count[PCR_FIRMWARE_HASH] < MaxCollects
            /\ LET st == RunCollectors([rc |-> PQC_SUCCESS, ctx |-> g_attestation_ctx,
                                        tpm |-> tpm_state,
                                        measurement |-> JunkMeasurement(stack_junk)], clock)
               IN  /\ g_attestation_ctx' = st.ctx
                   /\ tpm_state' = st.tpm
                   /\ ret' = [op |-> "attestation_collect_measurements", rc |-> st.rc]
    /\ UNCHANGED <<g_attestation_initialized, clock, stack_junk, n_inits, pc, sgn, report,
                   vfy, kem, keccak>>

\* attestation_generate_report up to the entry of dilithium_sign's loop.
attestation_generate_report ==
    /\ pc = "idle"
    /\ IF ~g_attestation_initialized
       THEN /\ ret' = [op |-> "attestation_generate_report", rc |-> PQC_ERROR_INVALID_PARAMETER]
            /\ UNCHANGED <<pc, sgn, report>>
       ELSE \E rp \in SignSeeds :
              LET filled == FillReport(g_attestation_ctx, clock)
              IN  /\ report' = filled
                  /\ sgn' = SignFrame("attestation_generate_report", ReportHash(filled),
                                      g_attestation_ctx.device_keypair.sk, rp)
                  /\ pc' = "sign"
                  /\ ret' = [op |-> "attestation_generate_report", rc |-> "running"]
    /\ UNCHANGED <<g_attestation_initialized, g_attestation_ctx, tpm_state, clock, stack_junk,
                   n_inits, vfy, kem, keccak>>

\* One iteration of dilithium_sign's while (1) loop, and, when the iteration
\* reaches the break, the packing, the return and the caller's last statements.
dilithium_sign_iteration ==
    /\ pc = "sign"
    /\ \E t \in GammaDraws, cs1 \in Cs1Coeffs :
         LET y  == poly_uniform_gamma1(t)
             z0 == AddLimbs(y, cs1, 0)
             sk == g_attestation_ctx.device_keypair.sk
         IN  IF ZOutOfRange(z0)
             THEN /\ sgn' = [sgn EXCEPT !.nonce = (@ + 1) % NonceSpace]
                  /\ UNCHANGED <<pc, report, ret>>
             ELSE \E hint_count \in HintCounts :
                  IF hint_count > DILITHIUM_OMEGA
                  THEN /\ sgn' = [sgn EXCEPT !.nonce = (@ + 1) % NonceSpace]
                       /\ UNCHANGED <<pc, report, ret>>
                  ELSE
                  LET sig == [c      |-> SignChallenge(sk, sgn, stack_junk),
                              z0     |-> z0,
                              z      |-> Term("z", sgn.rhoprime \o <<ToString(sgn.nonce)>>),
                              nhints |-> hint_count]
                  IN
                  /\ report' =
                       IF sgn.caller = "attestation_generate_report"
                       THEN [report EXCEPT !.signature = sig,
                                           !.signature_length = PackedZEnd + hint_count]
                       ELSE report
                  /\ pc' = "idle"
                  /\ sgn' =
                       IF sgn.caller = "attestation_get_device_certificate"
                       THEN [sgn EXCEPT !.caller = "none",
                                        !.cert.ca_signature = sig,
                                        !.cert.ca_signature_length = PackedZEnd + hint_count]
                       ELSE [sgn EXCEPT !.caller = "none"]
                  /\ ret' = [op |-> sgn.caller, rc |-> PQC_SUCCESS]
    /\ UNCHANGED <<g_attestation_initialized, g_attestation_ctx, tpm_state, clock, stack_junk,
                   n_inits, vfy, kem, keccak>>

\* 365 * 24 * 60 * 60 seconds as a 64-bit value
OneYear == U64(31536000 % Limb, 31536000 \div Limb, 0, 0)

\* The caller's certificate buffer as attestation_get_device_certificate fills
\* it; the buffer is not cleared, so the length field holds what it held.
FillCertificate(ctx, now, junk) ==
    [public_key          |-> ctx.device_keypair.pk,
     device_info         |-> ctx.device_info,
     certificate_version |-> 1,
     issued_timestamp    |-> now,
     expiry_timestamp    |-> AddLimbs(now, OneYear, 0),
     algorithm_id        |-> "PQC_ALG_DILITHIUM_5",
     ca_signature_length |-> junk,
     ca_signature        |-> ZeroSig]

\* attestation_get_device_certificate up to the entry of dilithium_sign's loop;
\* the certificate being signed stays in the caller's buffer (sgn.cert).
attestation_get_device_certificate ==
    /\ pc = "idle"
    /\ \E cert_null \in BOOLEAN :
         IF cert_null \/ ~g_attestation_initialized
         THEN /\ ret' = [op |-> "attestation_get_device_certificate",
                         rc |-> PQC_ERROR_INVALID_PARAMETER]
              /\ UNCHANGED <<pc, sgn>>
         ELSE \E rp \in SignSeeds :
              LET cert == FillCertificate(g_attestation_ctx, clock, stack_junk)
                  hash == calculate_sha256(<<ToString([cert EXCEPT !.ca_signature = <<>>])>>)
              IN  /\ sgn' = SignFrame("attestation_get_device_certificate", hash,
                                      g_attestation_ctx.device_keypair.sk, rp)
                             @@ [cert |-> cert]
                  /\ pc' = "sign"
                  /\ ret' = [op |-> "attestation_get_device_certificate", rc |-> "running"]
    /\ UNCHANGED <<g_attestation_initialized, g_attestation_ctx, tpm_state, clock, stack_junk,
                   n_inits, report, vfy, kem, keccak>>

Next ==
    \/ attestation_init
    \/ attestation_collect_measurements
    \/ attestation_generate_report
    \/ attestation_get_device_certificate
    \/ dilithium_sign_iteration
    \/ attestation_cleanup

Spec == Init /\ [][Next]_vars

\* The signing loop is a running call: it takes its next step.
SpecFair == Spec /\ WF_vars(dilithium_sign_iteration)


----------------------------------------------------------------------------
(* The TPM interface called directly *)

InitTpm ==
    /\ g_attestation_initialized = FALSE
    /\ g_attestation_ctx = CtxZero
    /\ tpm_state = TpmZero
    /\ clock \in DeviceClocks
    /\ stack_junk \in StackJunk
    /\ n_inits = 0
    /\ keccak = NoKeccak
    /\ pc = "idle"
    /\ sgn = NoFrame
    /\ report = ZeroReport
    /\ ret = [op |-> "none", rc |-> PQC_SUCCESS, value |-> ZeroBytes]
    /\ vfy = NoVerify
    /\ kem = NoKem

\* register numbers a caller passes (uint8_t), in and out of range
CallerPcrIndexes == { 0, 5, 7, 8, 255 }

CallerMeasurements == { sha3_256(<<"m1">>), sha3_256(<<"m2">>) }

tpmOther == <<g_attestation_initialized, g_attestation_ctx, clock, stack_junk, n_inits, pc,
              sgn, report, vfy, kem, keccak>>

Call_tpm2_init ==
    /\ tpm_state' = tpm2_init(tpm_state).tpm
    /\ ret' = [op |-> "tpm2_init", rc |-> tpm2_init(tpm_state).rc, value |-> ZeroBytes]
    /\ UNCHANGED tpmOther

Call_tpm2_cleanup ==
    /\ tpm_state' = tpm2_cleanup(tpm_state)
    /\ ret' = [op |-> "tpm2_cleanup", rc |-> PQC_SUCCESS, value |-> ZeroBytes]
    /\ UNCHANGED tpmOther

Call_tpm2_read_pcr ==
    /\ \E pcr_index \in CallerPcrIndexes :
         ret' = [op |-> "tpm2_read_pcr", rc |-> tpm2_read_pcr(tpm_state, pcr_index).rc,
                 value |-> tpm2_read_pcr(tpm_state, pcr_index).value]
    /\ UNCHANGED tpm_state
    /\ UNCHANGED tpmOther

Call_tmp2_extend_pcr ==
    /\ \E pcr_index \in CallerPcrIndexes, measurement \in CallerMeasurements :
         /\ pcr_index < MAX_PCR_REGISTERS => tpm_state.extend_count[pcr_index] < MaxExtends
         /\ tpm_state' = tmp2_extend_pcr(tpm_state, pcr_index, measurement).tpm
         /\ ret' = [op |-> "tmp2_extend_pcr",
                    rc |-> tmp2_extend_pcr(tpm_state, pcr_index, measurement).rc,
                    value |-> ZeroBytes]
    /\ UNCHANGED tpmOther

Call_tpm2_reset_pcr ==
    /\ pc = "idle"
    /\ \E pcr_index \in CallerPcrIndexes :
         /\ tpm_state' = tmp2_reset_pcr(tpm_state, pcr_index)
         /\ ret' = [op |-> "tmp2_reset_pcr", rc |-> PQC_SUCCESS, value |-> ZeroBytes,
                    pcr_index |-> pcr_index]
    /\ UNCHANGED tpmOther

Call_tpm2_get_extend_count ==
    /\ \E pcr_index \in CallerPcrIndexes :
         ret' = [op |-> "tpm2_get_extend_count", rc |-> PQC_SUCCESS,
                 value |-> <<ToString(tpm2_get_extend_count(tpm_state, pcr_index))>>]
    /\ UNCHANGED tpm_state
    /\ UNCHANGED tpmOther

NextTpm ==
    \/ Call_tpm2_init
    \/ Call_tpm2_get_extend_count
    \/ Call_tpm2_cleanup
    \/ Call_tpm2_read_pcr
    \/ Call_tmp2_extend_pcr
    \/ Call_tpm2_reset_pcr

SpecTpm == InitTpm /\ [][NextTpm]_vars

\* the value a register holds after the measurements ms were extended into it
RECURSIVE HashChain(_)
HashChain(ms) ==
    IF ms = <<>> THEN Zero32
    ELSE sha3_256(HashChain(SubSeq(ms, 1, Len(ms) - 1)) \o ms[Len(ms)])

----------------------------------------------------------------------------
(* Verification: dilithium_verify and attestation_verify_report *)

\* The first coefficient of z as verify unpacks it: three bytes.
UnpackZ0(sig) == <<sig.z0[1], sig.z0[2] % 256>>

\* Number of coefficients of z that verify unpacks: it takes three bytes
\* while sig_pos + 2 < siglen.
UnpackedCoeffs(siglen) == Min(DILITHIUM_L * DILITHIUM_N, (siglen - 32) \div 3)

\* What verify takes for z: coefficients it did not unpack are whatever its
\* stack held.
VerifyZ(sig, siglen, stk) ==
    IF UnpackedCoeffs(siglen) = DILITHIUM_L * DILITHIUM_N
    THEN Term("z", <<ToString(UnpackZ0(sig))>> \o sig.z)
    ELSE Term("z", <<ToString(UnpackedCoeffs(siglen))>> \o sig.z \o <<stk>>)

\* The hint bytes: those from the end of z to siglen; past the end of the
\* signature buffer they are whatever lies behind it.
VerifyHints(sig, siglen, stk) ==
    IF siglen <= DILITHIUM_SIGNATUREBYTES
    THEN Term("h", <<ToString(siglen), ToString(sig.nhints)>>)
    ELSE Term("h", <<ToString(siglen), ToString(sig.nhints), stk>>)

\* w1' = UseHint(h, A*z - t1*2^d): the challenge does not enter it.
VerifyW1(sig, siglen, pk, stk) ==
    Term("UseHint", VerifyHints(sig, siglen, stk) \o ExpandA(pk.rho, stk)
                    \o VerifyZ(sig, siglen, stk) \o Term("t1", pk.t1))

\* c_computed of dilithium_verify
VerifyChallenge(sig, siglen, message, pk, stk) ==
    shake256(shake256(shake256(PackPk(pk), <<>>), message), VerifyW1(sig, siglen, pk, stk))

dilithium_verify(sig, siglen, message, pk, stk) ==
    IF siglen < 32 THEN PQC_ERROR_INVALID_PARAMETER
    ELSE IF UnpackedCoeffs(siglen) > 0
            /\ LeLimbs(U32(DILITHIUM_GAMMA1 - DILITHIUM_BETA), UnpackZ0(sig))
         THEN PQC_ERROR_INVALID_SIGNATURE
    ELSE IF sig.c # VerifyChallenge(sig, siglen, message, pk, stk)
         THEN PQC_ERROR_INVALID_SIGNATURE
    ELSE PQC_SUCCESS

\* abs((int)(current_time - report->timestamp)) > 300.  The difference is
\* taken in 64 bits and cut to its low 32; abs of INT_MIN is undefined, and
\* ub is what the build then makes of the comparison.
TimestampRejected(now, timestamp, ub) ==
    LET d   == SubLimbs(now, timestamp, 0)
        lo  == <<d[1], d[2]>>
        mag == IF lo[2] >= 2^15 THEN SubLimbs(U32(0), lo, 0) ELSE lo
    IN  IF lo = <<0, 2^15>> THEN ub
        ELSE LtLimbs(U32(ClockSkew), mag)

ZeroMeasurement ==
    [pcr_index |-> 0, measurement_type |-> 0, measurement_value |-> Zero32,
     timestamp |-> U64(0, 0, 0, 0), measurement_size |-> "0", description |-> "0"]

\* report->measurements[i - 1]
Slot(r, i) == IF i <= Len(r.measurements) THEN r.measurements[i] ELSE ZeroMeasurement

\* A loop that looks at a slot's measurement type before its register number.
RECURSIVE CheckSlots_type_first(_, _)
CheckSlots_type_first(r, i) ==
    IF i > r.measurement_count THEN ATTESTATION_ERROR_NONE
    ELSE IF Slot(r, i).measurement_type >= MEASUREMENT_TYPE_MAX
         THEN ATTESTATION_ERROR_INVALID_MEASUREMENT
    ELSE IF Slot(r, i).pcr_index >= MAX_PCR_REGISTERS THEN ATTESTATION_ERROR_INVALID_PCR
    ELSE CheckSlots_type_first(r, i + 1)

\* The loop over the measurement slots from slot i on: the error it returns
\* with, or ATTESTATION_ERROR_NONE.
RECURSIVE CheckSlots(_, _)
CheckSlots(r, i) ==
    IF i > r.measurement_count THEN ATTESTATION_ERROR_NONE
    ELSE IF Slot(r, i).pcr_index >= MAX_PCR_REGISTERS THEN ATTESTATION_ERROR_INVALID_PCR
    ELSE IF Slot(r, i).measurement_type >= MEASUREMENT_TYPE_MAX
         THEN ATTESTATION_ERROR_INVALID_MEASUREMENT
    ELSE CheckSlots(r, i + 1)

ZeroResult ==
    [is_valid |-> FALSE, error_code |-> ATTESTATION_ERROR_NONE,
     trust_level |-> TRUST_LEVEL_UNKNOWN, device_id |-> <<>>, timestamp |-> U64(0, 0, 0, 0)]

Rejected(error) == [rc |-> PQC_SUCCESS, result |-> [ZeroResult EXCEPT !.error_code = error]]

\* A verifier that checks the signature before the format.
verify_report_signature_first(r, device_public_key, now, stk, ub) ==
    IF dilithium_verify(r.signature, r.signature_length, ReportHash(r),
                        device_public_key, stk) # PQC_SUCCESS
    THEN Rejected(ATTESTATION_ERROR_SIGNATURE_INVALID)
    ELSE IF r.report_version # ATTESTATION_REPORT_VERSION
            \/ r.measurement_count > MAX_MEASUREMENTS_PER_REPORT
    THEN Rejected(ATTESTATION_ERROR_INVALID_FORMAT)
    ELSE IF TimestampRejected(now, r.timestamp, ub)
    THEN Rejected(ATTESTATION_ERROR_TIMESTAMP_INVALID)
    ELSE IF CheckSlots(r, 1) # ATTESTATION_ERROR_NONE
    THEN Rejected(CheckSlots(r, 1))
    ELSE [rc     |-> PQC_SUCCESS,
          result |-> [is_valid |-> TRUE, error_code |-> ATTESTATION_ERROR_NONE,
                      trust_level |-> TRUST_LEVEL_HIGH, device_id |-> r.device_id,
                      timestamp |-> r.timestamp]]

\* attestation_verify_report for non-null arguments; now is what time(NULL)
\* returns.
attestation_verify_report(r, device_public_key, now, stk, ub) ==
    IF r.report_version # ATTESTATION_REPORT_VERSION
    THEN Rejected(ATTESTATION_ERROR_INVALID_FORMAT)
    ELSE IF r.measurement_count > MAX_MEASUREMENTS_PER_REPORT
    THEN Rejected(ATTESTATION_ERROR_INVALID_FORMAT)
    ELSE IF dilithium_verify(r.signature, r.signature_length, ReportHash(r),
                             device_public_key, stk) # PQC_SUCCESS
    THEN Rejected(ATTESTATION_ERROR_SIGNATURE_INVALID)
    ELSE IF TimestampRejected(now, r.timestamp, ub)
    THEN Rejected(ATTESTATION_ERROR_TIMESTAMP_INVALID)
    ELSE IF CheckSlots(r, 1) # ATTESTATION_ERROR_NONE
    THEN Rejected(CheckSlots(r, 1))
    ELSE [rc     |-> PQC_SUCCESS,
          result |-> [is_valid |-> TRUE, error_code |-> ATTESTATION_ERROR_NONE,
                      trust_level |-> TRUST_LEVEL_HIGH, device_id |-> r.device_id,
                      timestamp |-> r.timestamp]]


----------------------------------------------------------------------------
(* A verifier: attestation_verify_report applied to a report it received *)

\* public keys that key generation produces
CandidatePks(stk) == { dilithium_keypair(ZeroPk, seed, stk).pk : seed \in Seeds }

GoodSlot == [ZeroMeasurement EXCEPT !.pcr_index = PCR_DEVICE_ID,
                                    !.measurement_type = MEASUREMENT_TYPE_DEVICE_IDENTITY]

SlotChoices ==
    { <<GoodSlot, GoodSlot>>,
      <<[GoodSlot EXCEPT !.pcr_index = MAX_PCR_REGISTERS], GoodSlot>>,
      <<GoodSlot, [GoodSlot EXCEPT !.measurement_type = MEASUREMENT_TYPE_MAX]>>,
      <<[GoodSlot EXCEPT !.pcr_index = 255, !.measurement_type = MEASUREMENT_TYPE_MAX],
        GoodSlot>>,
      <<[GoodSlot EXCEPT !.measurement_type = 255],
        [GoodSlot EXCEPT !.pcr_index = MAX_PCR_REGISTERS]>> }

ReportTimes == { U64(0, 0, 0, 0), U64(1000, 0, 1, 0) }

\* time(NULL) at the verifier: around both report times, and 2^31, 2^32 and
\* 2^32 + 301 seconds away from them
VerifierClocks ==
    { U64(0, 0, 0, 0), U64(300, 0, 0, 0), U64(301, 0, 0, 0), U64(1000, 0, 0, 0),
      U64(0, 2^15, 0, 0), U64(0, 0, 1, 0), U64(301, 0, 1, 0),
      U64(699, 0, 1, 0), U64(700, 0, 1, 0), U64(1000, 0, 1, 0), U64(1300, 0, 1, 0),
      U64(1301, 0, 1, 0) }

SigLengths == { 31, 32, 35, PackedZEnd + 1 }

UnsignedReports ==
    [device_id         : { <<"u", "1">> },
     timestamp         : ReportTimes,
     report_version    : { ATTESTATION_REPORT_VERSION, ATTESTATION_REPORT_VERSION + 1 },
     measurement_count : { 0, 1, 2, MAX_MEASUREMENTS_PER_REPORT + 1 },
     pcr_values        : { [i \in PcrIndex |-> Zero32] },
     measurements      : SlotChoices,
     signature_length  : SigLengths,
     signature         : { ZeroSig }]

WithSignature(u, c, z0) ==
    [u EXCEPT !.signature = [c |-> c, z0 |-> z0, z |-> <<"z">>, nhints |-> 1]]

\* challenges a sender can put into the report u: none, or the one that
\* verification under one of the keys computes
Challenges(u, z0, stk) ==
    { Zero32 } \cup
    { VerifyChallenge(WithSignature(u, Zero32, z0).signature, u.signature_length,
                      ReportHash(u), pk, stk) : pk \in CandidatePks(stk) }

CandidateReports(stk) ==
    UNION { { WithSignature(u, c, z0) : c \in Challenges(u, z0, stk) } :
            u \in UnsignedReports,
            z0 \in { U32(0), U32(DILITHIUM_GAMMA1 - DILITHIUM_BETA) } }

InitVerify ==
    /\ g_attestation_initialized = FALSE
    /\ g_attestation_ctx = CtxZero
    /\ tpm_state = TpmZero
    /\ clock \in VerifierClocks
    /\ stack_junk \in StackJunk
    /\ n_inits = 0
    /\ keccak = NoKeccak
    /\ pc = "idle"
    /\ sgn = NoFrame
    /\ report \in CandidateReports(stack_junk)
    /\ ret = [op |-> "none", rc |-> PQC_SUCCESS]
    /\ vfy \in [called : {FALSE}, device_public_key : CandidatePks(stack_junk)]
    /\ kem = NoKem

\* attestation_verify_report(&report, &device_public_key, &result_out), or
\* the same call with a NULL argument.
Call_attestation_verify_report ==
    /\ ~vfy.called
    /\ \E null_arg \in BOOLEAN, ub \in BOOLEAN :
         LET out == attestation_verify_report(report, vfy.device_public_key, clock,
                                              stack_junk, ub)
         IN  /\ vfy' = [called |-> TRUE, device_public_key |-> vfy.device_public_key,
                        null_arg |-> null_arg,
                        result_out |-> IF null_arg THEN ZeroResult ELSE out.result]
             /\ ret' = [op |-> "attestation_verify_report",
                        rc |-> IF null_arg THEN PQC_ERROR_INVALID_PARAMETER ELSE out.rc]
    /\ UNCHANGED <<g_attestation_initialized, g_attestation_ctx, tpm_state, clock, stack_junk,
                   n_inits, pc, sgn, report, kem, keccak>>

NextVerify == Call_attestation_verify_report

SpecVerify == InitVerify /\ [][NextVerify]_vars


----------------------------------------------------------------------------
(* Properties of verification *)

\* verify was called with non-null arguments and has returned
Verified == vfy.called /\ ~vfy.null_arg

FormatOk ==
    /\ report.report_version = ATTESTATION_REPORT_VERSION
    /\ report.measurement_count <= MAX_MEASUREMENTS_PER_REPORT

SignatureOk ==
    dilithium_verify(report.signature, report.signature_length, ReportHash(report),
                     vfy.device_public_key, stack_junk) = PQC_SUCCESS

\* |clock_now - report.timestamp| as a 64-bit number
ClockDistance ==
    IF LtLimbs(clock, report.timestamp) THEN SubLimbs(report.timestamp, clock, 0)
    ELSE SubLimbs(clock, report.timestamp, 0)

TimestampOk == LeLimbs(ClockDistance, U64(ClockSkew, 0, 0, 0))

SlotsOk ==
    \A i \in 1 .. report.measurement_count :
        /\ Slot(report, i).pcr_index < MAX_PCR_REGISTERS
        /\ Slot(report, i).measurement_type < MEASUREMENT_TYPE_MAX

\* C5: the checks come in the order format, signature, timestamp,
\* per-measurement and the first failing one gives the error code: a bad
\* format yields InvalidFormat whatever the signature and the timestamp are;
\* a good format with a bad signature yields SignatureInvalid whatever the
\* timestamp and the measurements are; TimestampInvalid and the
\* per-measurement errors are reported only when format and signature passed.
C5_CheckOrder ==
    Verified =>
        /\ ~FormatOk => vfy.result_out.error_code = ATTESTATION_ERROR_INVALID_FORMAT
        /\ FormatOk /\ ~SignatureOk =>
               vfy.result_out.error_code = ATTESTATION_ERROR_SIGNATURE_INVALID
        /\ vfy.result_out.error_code = ATTESTATION_ERROR_TIMESTAMP_INVALID =>
               FormatOk /\ SignatureOk
        /\ vfy.result_out.error_code \in { ATTESTATION_ERROR_INVALID_PCR,
                                           ATTESTATION_ERROR_INVALID_MEASUREMENT } =>
               FormatOk /\ SignatureOk /\ ~SlotsOk

\* A report with a bad format, a signature that verifies and a timestamp in
\* the window was rejected with InvalidFormat.
C5_Witness ==
    /\ Verified
    /\ ~FormatOk /\ SignatureOk /\ TimestampOk
    /\ vfy.result_out.error_code = ATTESTATION_ERROR_INVALID_FORMAT

\* C6: verify returns success for every rejection; valid=true exactly when
\* the format, signature, timestamp (|now - timestamp| <= 300) and
\* per-measurement checks all pass, and then the error code is None and the
\* trust level High; a rejection has valid=false, a non-zero error code and a
\* trust level that is not High.
C6_ResultStructure ==
    Verified =>
        /\ ret.rc = PQC_SUCCESS
        /\ vfy.result_out.is_valid <=> (FormatOk /\ SignatureOk /\ TimestampOk /\ SlotsOk)
        /\ vfy.result_out.is_valid =>
               /\ vfy.result_out.error_code = ATTESTATION_ERROR_NONE
               /\ vfy.result_out.trust_level = TRUST_LEVEL_HIGH
        /\ ~vfy.result_out.is_valid =>
               /\ vfy.result_out.error_code # ATTESTATION_ERROR_NONE
               /\ vfy.result_out.trust_level # TRUST_LEVEL_HIGH

\* C7: for a report that passes the format and signature checks, verify
\* rejects with TimestampInvalid exactly when |now - timestamp| > 300 taken
\* over the 64-bit values.
C7_TimestampWindow ==
    (Verified /\ FormatOk /\ SignatureOk) =>
        (vfy.result_out.error_code = ATTESTATION_ERROR_TIMESTAMP_INVALID <=> ~TimestampOk)


----------------------------------------------------------------------------
(* Properties of collect and build *)

\* build has filled the caller's report: it is inside dilithium_sign or has
\* returned success
BuildRunning == pc = "sign" /\ sgn.caller = "attestation_generate_report"

BuildReturned ==
    pc = "idle" /\ ret = [op |-> "attestation_generate_report", rc |-> PQC_SUCCESS]

\* verify of the report in the caller's buffer with the context's own public
\* key at a clock equal to the report's timestamp
VerifyOwnReport(ub) ==
    attestation_verify_report(report, g_attestation_ctx.device_keypair.pk, report.timestamp,
                              stack_junk, ub)

\* C1: after init and any number of collects, build produces a report that
\* verify accepts (valid=true, trust level High) with the context's own
\* public key at a clock equal to the report's timestamp.
C1_BuildVerifyRoundTrip ==
    BuildRunning ~>
        (BuildReturned /\ \A ub \in BOOLEAN :
                              /\ VerifyOwnReport(ub).result.is_valid
                              /\ VerifyOwnReport(ub).result.trust_level = TRUST_LEVEL_HIGH)

\* C2: a signature that dilithium_sign produces for a message under a
\* generated secret key is accepted by dilithium_verify for that message under
\* the public key of the pair.
C2_SignThenVerify ==
    (pc = "sign") ~>
        (/\ pc = "idle"
         /\ ret.rc = PQC_SUCCESS
         /\ dilithium_verify(report.signature, report.signature_length, sgn.message,
                             g_attestation_ctx.device_keypair.pk, stack_junk) = PQC_SUCCESS)

\* C8: the digest build hands to dilithium_sign equals the digest verify takes
\* of the report build returns: of the report with signature_length set to any
\* length the signature packing stores, and of the returned report itself.
C8_SameDigest ==
    /\ BuildRunning =>
         \A hint_count \in 0 .. DILITHIUM_OMEGA :
             ReportHash([report EXCEPT !.signature_length = PackedZEnd + hint_count])
                 = sgn.message
    /\ BuildReturned => ReportHash(report) = sgn.message

\* C9: a report filled by build has measurement_count <= 32, and
\* measurement_count is the number of log entries copied into its slots,
\* min(log count, 32).
C9_ReportCount ==
    (BuildRunning \/ BuildReturned) =>
        /\ report.measurement_count <= MAX_MEASUREMENTS_PER_REPORT
        /\ report.measurement_count = Len(report.measurements)
        /\ Len(report.measurements) =
               Min(g_attestation_ctx.measurement_log.count, MAX_MEASUREMENTS_PER_REPORT)

\* C10: a collect on a log that holds its capacity of 256 entries leaves the
\* log as it is and does not return success.
C10_LogFull ==
    [][(/\ attestation_collect_measurements
        /\ g_attestation_initialized
        /\ g_attestation_ctx.measurement_log.count = MAX_MEASUREMENT_LOG_ENTRIES)
       => (/\ g_attestation_ctx'.measurement_log = g_attestation_ctx.measurement_log
           /\ ret'.rc # PQC_SUCCESS)]_vars


----------------------------------------------------------------------------
(* The Kyber KEM: kyber.c *)

\* what pqc_randombytes delivers for a 32-byte request
RandomBytes == { "b1", "b2" }

\* the content of a ciphertext buffer nobody has written: all zero, or not
FreshBuffers == { <<>>, <<"junk">> }

PackKyberPk(pk) == pk.seed \o pk.t

kyber_keypair(publicseed, noiseseed, z) ==
    LET A  == Term("A", <<publicseed>>)
        sv == Term("s", <<noiseseed>>)
        e  == Term("e", <<noiseseed>>)
        pk == [seed |-> <<publicseed>>, t |-> Term("As+e", A \o sv \o e)]
    IN  [rc |-> PQC_SUCCESS,
         pk |-> pk,
         sk |-> [s |-> sv, pk |-> pk, h |-> sha3_256(PackKyberPk(pk)), z |-> <<z>>]]

\* ct is the caller's buffer: the packing ORs the ciphertext into what the
\* buffer holds.  The shared secret is the hash of the random message alone.
kyber_encapsulate(ct, pk, m) ==
    LET coins == sha3_512(<<m>> \o sha3_256(PackKyberPk(pk)))
    IN  [rc            |-> PQC_SUCCESS,
         ct            |-> ct \o Term("Enc", PackKyberPk(pk) \o <<m>> \o coins),
         shared_secret |-> sha3_256(<<m>>)]

\* The candidate ciphertext is made by a call of kyber_encapsulate, which
\* draws a random message of its own (m_fresh) and packs into the local
\* ct_prime, a buffer nobody has written.  On a mismatch the copy of the
\* ciphertext runs past the 64-byte hash_input: the secret is the hash of
\* z || ct where the copy did no harm, and anything (overrun) where it did.
kyber_decapsulate(ct, sk, m_fresh, ct_prime, overrun) ==
    LET again == kyber_encapsulate(ct_prime, sk.pk, m_fresh)
    IN  [rc            |-> PQC_SUCCESS,
         shared_secret |-> IF ct = again.ct THEN again.shared_secret
                           ELSE IF overrun = <<>> THEN sha3_256(sk.z \o ct)
                           ELSE overrun]

KemBlank ==
    [stage |-> "none",
     pk |-> [seed |-> <<>>, t |-> <<>>],
     sk |-> [s |-> <<>>, pk |-> [seed |-> <<>>, t |-> <<>>], h |-> <<>>, z |-> <<>>],
     ct |-> <<>>, ss_enc |-> <<>>, ss_dec |-> <<>>]

InitKem ==
    /\ g_attestation_initialized = FALSE
    /\ g_attestation_ctx = CtxZero
    /\ tpm_state = TpmZero
    /\ clock \in DeviceClocks
    /\ stack_junk \in StackJunk
    /\ n_inits = 0
    /\ keccak = NoKeccak
    /\ pc = "idle"
    /\ sgn = NoFrame
    /\ report = ZeroReport
    /\ ret = [op |-> "none", rc |-> PQC_SUCCESS]
    /\ vfy = NoVerify
    /\ kem = KemBlank

kemOther == <<g_attestation_initialized, g_attestation_ctx, tpm_state, clock, stack_junk,
              n_inits, pc, sgn, report, vfy, keccak>>

Call_kyber_keypair ==
    /\ kem.stage = "none"
    /\ \E publicseed \in RandomBytes, noiseseed \in RandomBytes, z \in RandomBytes :
         LET kp == kyber_keypair(publicseed, noiseseed, z)
         IN  /\ kem' = [kem EXCEPT !.stage = "keypair", !.pk = kp.pk, !.sk = kp.sk]
             /\ ret' = [op |-> "kyber_keypair", rc |-> kp.rc]
    /\ UNCHANGED kemOther

Call_kyber_encapsulate ==
    /\ kem.stage = "keypair"
    /\ \E m \in RandomBytes, ct \in FreshBuffers :
         LET enc == kyber_encapsulate(ct, kem.pk, m)
         IN  /\ kem' = [kem EXCEPT !.stage = "encapsulated", !.ct = enc.ct,
                                   !.ss_enc = enc.shared_secret]
             /\ ret' = [op |-> "kyber_encapsulate", rc |-> enc.rc]
    /\ UNCHANGED kemOther

Call_kyber_decapsulate ==
    /\ kem.stage = "encapsulated"
    /\ \E m_fresh \in RandomBytes, ct_prime \in FreshBuffers, overrun \in FreshBuffers :
         LET dec == kyber_decapsulate(kem.ct, kem.sk, m_fresh, ct_prime, overrun)
         IN  /\ kem' = [kem EXCEPT !.stage = "decapsulated", !.ss_dec = dec.shared_secret]
             /\ ret' = [op |-> "kyber_decapsulate", rc |-> dec.rc]
    /\ UNCHANGED kemOther

NextKem ==
    \/ Call_kyber_keypair
    \/ Call_kyber_encapsulate
    \/ Call_kyber_decapsulate

SpecKem == InitKem /\ [][NextKem]_vars

\* C4: decapsulate of the ciphertext of an encapsulation under the secret key
\* of the pair returns the shared secret of that encapsulation, whatever the
\* random source delivered during encapsulate and decapsulate.
C4_DecapsulateAgrees ==
    kem.stage = "decapsulated" => kem.ss_dec = kem.ss_enc


----------------------------------------------------------------------------
(* The engine on a platform that can also shut the TPM down directly *)

NextEngineTpm ==
    \/ attestation_init
    \/ attestation_cleanup
    \/ attestation_collect_measurements
    \/ Call_tpm2_cleanup

SpecEngineTpm == Init /\ [][NextEngineTpm]_vars

\* The types of the claim's order with their registers: <<pcr_index, type>>.
CollectOrder ==
    << <<0, 0>>, <<1, 1>>, <<2, 2>>, <<3, 3>>, <<5, 5>> >>

\* What a collect step that processed exactly the first k types leaves behind:
\* one more extend, of the logged value, in the register of each of them, every
\* other register as it was, and the log extended by their entries in order
\* (as far as the capacity allows), the old entries in place.
ProcessedTypes(k) ==
    LET old   == g_attestation_ctx.measurement_log
        new   == g_attestation_ctx'.measurement_log
        added == Min(k, MAX_MEASUREMENT_LOG_ENTRIES - old.count)
    IN  /\ \A j \in 1 .. 5 :
             LET p == CollectOrder[j][1]
             IN  IF j <= k
                 THEN /\ Len(tpm_state'.extended[p]) = Len(tpm_state.extended[p]) + 1
                      /\ SubSeq(tpm_state'.extended[p], 1, Len(tpm_state.extended[p]))
                             = tpm_state.extended[p]
                      /\ tpm_state'.extend_count[p] = tpm_state.extend_count[p] + 1
                 ELSE /\ tpm_state'.extended[p] = tpm_state.extended[p]
                      /\ tpm_state'.pcr_values[p] = tpm_state.pcr_values[p]
        /\ \A p \in PcrIndex \ {CollectOrder[j][1] : j \in 1 .. 5} :
             /\ tpm_state'.extended[p] = tpm_state.extended[p]
             /\ tpm_state'.pcr_values[p] = tpm_state.pcr_values[p]
        /\ new.count = old.count + added
        /\ Len(new.measurements) = new.count
        /\ SubSeq(new.measurements, 1, old.count) = old.measurements
        /\ \A j \in 1 .. added :
             LET e == new.measurements[old.count + j]
             IN  /\ e.pcr_index = CollectOrder[j][1]
                 /\ e.measurement_type = CollectOrder[j][2]
                 /\ e.measurement_value =
                        tpm_state'.extended[e.pcr_index][Len(tpm_state'.extended[e.pcr_index])]

\* C11: a collect processes Firmware, Configuration, Runtime, Keys,
\* DeviceIdentity in that order on PCRs 0, 1, 2, 3, 5; when it succeeds all
\* five were processed, and when a step fails it returns the error with only
\* the types before that step extended and logged, their effects in place.
C11_CollectOrder ==
    [][(attestation_collect_measurements /\ g_attestation_initialized)
       => \/ ret'.rc = PQC_SUCCESS /\ ProcessedTypes(5)
          \/ ret'.rc # PQC_SUCCESS /\ \E k \in 0 .. 4 : ProcessedTypes(k)]_vars

\* A failed collect (the TPM was shut down under the engine) after a
\* successful one, whose five entries are still in the log in order.
C11_Witness ==
    /\ g_attestation_initialized
    /\ ret.op = "attestation_collect_measurements"
    /\ ret.rc = PQC_ERROR_HARDWARE_FAILURE
    /\ g_attestation_ctx.measurement_log.count = 5
    /\ \A j \in 1 .. 5 :
         g_attestation_ctx.measurement_log.measurements[j].pcr_index = CollectOrder[j][1]


----------------------------------------------------------------------------
(* kyber_decapsulate applied twice to one received ciphertext *)

\* The encapsulations under pk, packed into a zeroed buffer.
Encapsulations(pk) == { kyber_encapsulate(<<>>, pk, m).ct : m \in RandomBytes }

\* Ciphertexts a peer can send: encapsulations under pk and other bytes.
ReceivedCiphertexts(pk) == Encapsulations(pk) \cup { <<"ct_x">>, <<"ct_y">> }

InitDecap ==
    /\ g_attestation_initialized = FALSE
    /\ g_attestation_ctx = CtxZero
    /\ tpm_state = TpmZero
    /\ clock \in DeviceClocks
    /\ stack_junk \in StackJunk
    /\ n_inits = 0
    /\ keccak = NoKeccak
    /\ pc = "idle"
    /\ sgn = NoFrame
    /\ report = ZeroReport
    /\ ret = [op |-> "none", rc |-> PQC_SUCCESS]
    /\ vfy = NoVerify
    /\ \E publicseed \in RandomBytes, noiseseed \in RandomBytes, z \in RandomBytes :
         LET kp == kyber_keypair(publicseed, noiseseed, z)
         IN  \E ct \in ReceivedCiphertexts(kp.pk) :
               kem = [stage |-> "received", pk |-> kp.pk, sk |-> kp.sk, ct |-> ct,
                      rc1 |-> "none", ss_dec |-> <<>>, rc2 |-> "none", ss_dec2 |-> <<>>]

Call_kyber_decapsulate_first ==
    /\ kem.stage = "received"
    /\ \E m_fresh \in RandomBytes, ct_prime \in FreshBuffers, overrun \in FreshBuffers :
         LET dec == kyber_decapsulate(kem.ct, kem.sk, m_fresh, ct_prime, overrun)
         IN  /\ kem' = [kem EXCEPT !.stage = "once", !.rc1 = dec.rc,
                                   !.ss_dec = dec.shared_secret]
             /\ ret' = [op |-> "kyber_decapsulate", rc |-> dec.rc]
    /\ UNCHANGED kemOther

Call_kyber_decapsulate_second ==
    /\ kem.stage = "once"
    /\ \E m_fresh \in RandomBytes, ct_prime \in FreshBuffers, overrun \in FreshBuffers :
         LET dec == kyber_decapsulate(kem.ct, kem.sk, m_fresh, ct_prime, overrun)
         IN  /\ kem' = [kem EXCEPT !.stage = "twice", !.rc2 = dec.rc,
                                   !.ss_dec2 = dec.shared_secret]
             /\ ret' = [op |-> "kyber_decapsulate", rc |-> dec.rc]
    /\ UNCHANGED kemOther

NextDecap ==
    \/ Call_kyber_decapsulate_first
    \/ Call_kyber_decapsulate_second

SpecDecap == InitDecap /\ [][NextDecap]_vars

\* C12: two decapsulations of one (sk, ct) both succeed and return the same
\* secret whatever the random source delivers, and for a ciphertext that is no
\* encapsulation under the key that secret is the hash of z and the ciphertext.
C12_DecapsulateDeterministic ==
    kem.stage = "twice" =>
        /\ kem.rc1 = PQC_SUCCESS
        /\ kem.rc2 = PQC_SUCCESS
        /\ kem.ss_dec = kem.ss_dec2
        /\ kem.ct \notin Encapsulations(kem.pk) => kem.ss_dec = sha3_256(kem.sk.z \o kem.ct)


----------------------------------------------------------------------------
(* Cleanup *)

\* C13: when attestation_cleanup has returned, the context is uninitialised
\* and every byte of the device secret key in it is zero.
C13_CleanupZeroizes ==
    ret.op = "attestation_cleanup" =>
        /\ ~g_attestation_initialized
        /\ g_attestation_ctx.device_keypair.sk = ZeroSk
        /\ ~g_attestation_ctx.device_keypair_valid

\* A cleanup of a context that had generated its key pair: the public key is
\* still there, the secret key is wiped.
C13_Witness ==
    /\ ret.op = "attestation_cleanup"
    /\ n_inits >= 1
    /\ g_attestation_ctx.device_keypair.pk # ZeroPk
    /\ g_attestation_ctx.device_keypair.sk = ZeroSk


----------------------------------------------------------------------------
(* Termination of the signing loop *)

\* C14: every call of dilithium_sign returns: a build or a certificate
\* request that has entered the signing loop eventually leaves it.
C14_SignTerminates == (pc = "sign") ~> (pc = "idle")


----------------------------------------------------------------------------
(* Snapshot taken by a report build *)

----------------------------------------------------------------------------
(* Register numbers out of range *)

\* the values of a uint8_t pcr_index that name no register
OutOfRangeIndexes == MAX_PCR_REGISTERS .. 255

----------------------------------------------------------------------------
(* Reset of a register *)

\* C17: in every state of an initialised bank, a reset of any register i < 8
\* leaves register i at 32 zero bytes with extend counter 0 and every other
\* register's value and counter as they were.
C17_ResetFrame ==
    tpm_state.initialized =>
        \A i \in PcrIndex :
            LET after == tmp2_reset_pcr(tpm_state, i)
            IN  /\ after.pcr_values[i] = Zero32
                /\ after.extend_count[i] = 0
                /\ \A j \in PcrIndex \ {i} :
                     /\ after.pcr_values[j] = tpm_state.pcr_values[j]
                     /\ after.extend_count[j] = tpm_state.extend_count[j]
                /\ after.initialized
                /\ after.pcr_allocated = tpm_state.pcr_allocated

\* Register 5 of an initialised bank has just been reset while register 7
\* holds two extends.
C17_Witness ==
    /\ tpm_state.initialized
    /\ ret.op = "tmp2_reset_pcr"
    /\ ret.pcr_index = 5
    /\ tpm_state.pcr_values[5] = Zero32
    /\ tpm_state.extend_count[5] = 0
    /\ tpm_state.extend_count[7] = 2


----------------------------------------------------------------------------
(* The per-measurement checks of verify *)

\* Slot i counts (i <= measurement_count) and its register number or its type
\* is out of range.
Offending(i) ==
    /\ i <= report.measurement_count
    /\ \/ Slot(report, i).pcr_index >= MAX_PCR_REGISTERS
       \/ Slot(report, i).measurement_type >= MEASUREMENT_TYPE_MAX

\* C18: when verify got past the format, signature and timestamp checks, the
\* outcome is decided by the first offending slot among slots 0 ..
\* measurement_count-1: InvalidPcr if its register number is >= 8,
\* InvalidMeasurement if its register number is in range and its type is >= 8,
\* acceptance if there is none; the slots from measurement_count on play no part.
C18_FirstOffendingSlot ==
    (/\ Verified
     /\ FormatOk
     /\ SignatureOk
     /\ vfy.result_out.error_code # ATTESTATION_ERROR_TIMESTAMP_INVALID) =>
        LET slots == 1 .. MAX_MEASUREMENTS_PER_REPORT
        IN  IF \E i \in slots : Offending(i)
            THEN LET first == CHOOSE i \in slots :
                                 Offending(i) /\ \A j \in 1 .. (i - 1) : ~Offending(j)
                 IN  /\ ~vfy.result_out.is_valid
                     /\ vfy.result_out.error_code =
                            IF Slot(report, first).pcr_index >= MAX_PCR_REGISTERS
                            THEN ATTESTATION_ERROR_INVALID_PCR
                            ELSE ATTESTATION_ERROR_INVALID_MEASUREMENT
            ELSE /\ vfy.result_out.is_valid
                 /\ vfy.result_out.error_code = ATTESTATION_ERROR_NONE

\* A report with two counted slots, the first with a bad type and the second
\* with a bad register number, was rejected for the first.
C18_Witness ==
    /\ Verified
    /\ FormatOk
    /\ SignatureOk
    /\ report.measurement_count = 2
    /\ Slot(report, 1).pcr_index < MAX_PCR_REGISTERS
    /\ Slot(report, 1).measurement_type >= MEASUREMENT_TYPE_MAX
    /\ Slot(report, 2).pcr_index >= MAX_PCR_REGISTERS
    /\ vfy.result_out.error_code = ATTESTATION_ERROR_INVALID_MEASUREMENT


----------------------------------------------------------------------------
(* dilithium_verify called on signatures a sender made up *)

SentMessages == { <<"d1">>, <<"d2">> }

\* Lengths of the signatures sent: too short, c alone, c and one coefficient
\* of z, c and all of z, and the same followed by 75 and by 76 hint bytes.
SentLengths == { 31, 32, 35, PackedZEnd, PackedZEnd + DILITHIUM_OMEGA,
                 PackedZEnd + DILITHIUM_OMEGA + 1 }

\* First coefficients of z as the three packed bytes hold them: 0, the
\* largest value in range, gamma1 - beta, and -(gamma1 - beta) and -1 in 24 bits.
SentCoefficients ==
    { U32(0), U32(DILITHIUM_GAMMA1 - DILITHIUM_BETA - 1),
      U32(DILITHIUM_GAMMA1 - DILITHIUM_BETA),
      U32(2^24 - (DILITHIUM_GAMMA1 - DILITHIUM_BETA)), U32(2^24 - 1) }

\* A signature of siglen bytes: its hint bytes are pairwise different, so the
\* hint vector verify unpacks has as many ones as there are hint bytes.
SentSignature(c, z0, siglen) ==
    [c |-> c, z0 |-> z0, z |-> <<"z">>,
     nhints |-> IF siglen > PackedZEnd THEN siglen - PackedZEnd ELSE 0]

\* The sender knows pk and the message and can put the challenge verify
\* will compute into the signature.
SentSignatures(siglen, message, pk, stk) ==
    UNION { { SentSignature(Zero32, z0, siglen),
              SentSignature(VerifyChallenge(SentSignature(Zero32, z0, siglen), siglen,
                                            message, pk, stk), z0, siglen) } :
            z0 \in SentCoefficients }

InitSigVerify ==
    /\ g_attestation_initialized = FALSE
    /\ g_attestation_ctx = CtxZero
    /\ tpm_state = TpmZero
    /\ clock \in DeviceClocks
    /\ stack_junk \in StackJunk
    /\ n_inits = 0
    /\ keccak = NoKeccak
    /\ pc = "idle"
    /\ sgn = NoFrame
    /\ report = ZeroReport
    /\ ret = [op |-> "none", rc |-> PQC_SUCCESS]
    /\ kem = NoKem
    /\ \E siglen \in SentLengths, message \in SentMessages, pk \in CandidatePks(stack_junk) :
         \E sig \in SentSignatures(siglen, message, pk, stack_junk) :
            vfy = [called |-> FALSE, signature |-> sig, siglen |-> siglen,
                   message |-> message, pk |-> pk]

Call_dilithium_verify ==
    /\ ~vfy.called
    /\ vfy' = [vfy EXCEPT !.called = TRUE]
    /\ ret' = [op |-> "dilithium_verify",
               rc |-> dilithium_verify(vfy.signature, vfy.siglen, vfy.message, vfy.pk,
                                       stack_junk)]
    /\ UNCHANGED <<g_attestation_initialized, g_attestation_ctx, tpm_state, clock, stack_junk,
                   n_inits, pc, sgn, report, kem, keccak>>

NextSigVerify == Call_dilithium_verify

SpecSigVerify == InitSigVerify /\ [][NextSigVerify]_vars

\* The first coefficient of z is in the signature and, read as a signed
\* 24-bit value, has magnitude >= gamma1 - beta.
ZCoefficientTooLarge ==
    /\ UnpackedCoeffs(vfy.siglen) > 0
    /\ LeLimbs(U32(DILITHIUM_GAMMA1 - DILITHIUM_BETA), vfy.signature.z0)
    /\ LeLimbs(vfy.signature.z0, U32(2^24 - (DILITHIUM_GAMMA1 - DILITHIUM_BETA)))

\* C19: dilithium_verify returns the invalid-signature error for every
\* signature with a z coefficient of magnitude >= gamma1 - beta and for every
\* signature whose hint vector has more than omega ones, also when the
\* challenge in it is the one verification computes.
C19_RangeAndHintRejection ==
    (/\ vfy.called
     /\ vfy.siglen >= 32
     /\ ZCoefficientTooLarge \/ vfy.signature.nhints > DILITHIUM_OMEGA) =>
        ret.rc = PQC_ERROR_INVALID_SIGNATURE


----------------------------------------------------------------------------
(* SHA3-256 as cryptoHash.c computes it.  A 64-bit lane is the set of its   *)
(* set bit positions (bit 0 the least significant), so ^ is the symmetric   *)
(* difference, & the intersection and ~ the complement in 0..63.  The byte  *)
(* view of the state (state_bytes) is the little-endian one of the x86 and  *)
(* ARM targets: byte i is bits 8*(i%8) .. 8*(i%8)+7 of lane i/8.            *)

KECCAK_ROUNDS == 24
KECCAK_RATE_SHA3_256 == 136

Bits64 == 0 .. 63

BitsOf(value, width, offset) ==
    { offset + k : k \in { j \in 0 .. width - 1 : (value \div 2^j) % 2 = 1 } }

(* A 64-bit literal from its four 16-bit groups, most significant first. *)
Lane64(w3, w2, w1, w0) ==
    BitsOf(w0, 16, 0) \cup BitsOf(w1, 16, 16) \cup BitsOf(w2, 16, 32) \cup BitsOf(w3, 16, 48)

keccak_round_constants ==
    << Lane64(0, 0, 0, 1),           Lane64(0, 0, 0, 32898),
       Lane64(32768, 0, 0, 32906),   Lane64(32768, 0, 32768, 32768),
       Lane64(0, 0, 0, 32907),       Lane64(0, 0, 32768, 1),
       Lane64(32768, 0, 32768, 32897), Lane64(32768, 0, 0, 32777),
       Lane64(0, 0, 0, 138),         Lane64(0, 0, 0, 136),
       Lane64(0, 0, 32768, 32777),   Lane64(0, 0, 32768, 10),
       Lane64(0, 0, 32768, 32907),   Lane64(32768, 0, 0, 139),
       Lane64(32768, 0, 0, 32905),   Lane64(32768, 0, 0, 32771),
       Lane64(32768, 0, 0, 32770),   Lane64(32768, 0, 0, 128),
       Lane64(0, 0, 0, 32778),       Lane64(32768, 0, 32768, 10),
       Lane64(32768, 0, 32768, 32897), Lane64(32768, 0, 0, 32896),
       Lane64(0, 0, 32768, 1),       Lane64(32768, 0, 32768, 32776) >>

keccak_rho_offsets ==
    <<  0,  1, 62, 28, 27, 36, 44,  6, 55, 20,
        3, 10, 43, 25, 39, 41, 45, 15, 21,  8,
       18,  2, 61, 56, 14 >>

pi_indices ==
    << 0, 6, 12, 18, 24, 3, 9, 10, 16, 22, 1, 7, 13, 19, 20,
       4, 5, 11, 17, 23, 2, 8, 14, 15, 21 >>

Xor64(a, b) == (a \ b) \cup (b \ a)

(* (x << n) | (x >> (64 - n)); for n = 0 the right shift by 64 leaves x or *)
(* 0 depending on the target, and either way the result is x.             *)
rol64(x, n) == { (b + n) % 64 : b \in x }

(* One iteration of the round loop of keccak_f1600.  B[pi_indices[i]] is *)
(* written once for every i: pi_indices is a permutation of 0..24.       *)
keccak_f1600_round(state, round) ==
    LET C == [ x \in 0 .. 4 |->
                 Xor64(Xor64(Xor64(Xor64(state[x], state[x + 5]), state[x + 10]),
                             state[x + 15]), state[x + 20]) ]
        D == [ x \in 0 .. 4 |-> Xor64(C[(x + 4) % 5], rol64(C[(x + 1) % 5], 1)) ]
        T == [ i \in 0 .. 24 |-> Xor64(state[i], D[i % 5]) ]
        B == [ j \in 0 .. 24 |->
                 LET i == CHOOSE i \in 0 .. 24 : pi_indices[i + 1] = j
                 IN  rol64(T[i], keccak_rho_offsets[i + 1]) ]
        X == [ i \in 0 .. 24 |->
                 LET x == i % 5
                     y == i \div 5
                 IN  Xor64(B[x + 5 * y],
                           (Bits64 \ B[((x + 1) % 5) + 5 * y]) \cap B[((x + 2) % 5) + 5 * y]) ]
    IN  [ i \in 0 .. 24 |->
            IF i = 0 THEN Xor64(X[0], keccak_round_constants[round + 1]) ELSE X[i] ]

(* state_bytes[index] ^= byte *)
XorStateByte(state, index, byte) ==
    [ state EXCEPT ![index \div 8] = Xor64(@, BitsOf(byte, 8, 8 * (index % 8))) ]

(* state_bytes[index] *)
StateByte(state, index) ==
    LET bit(k) == IF 8 * (index % 8) + k \in state[index \div 8] THEN 2^k ELSE 0
    IN  bit(0) + bit(1) + bit(2) + bit(3) + bit(4) + bit(5) + bit(6) + bit(7)

(* for (i = 0; i < chunk; i++) state_bytes[ctx->pos + i] ^= input[i]: every *)
(* input byte is xored into a state byte of its own, so a lane is xored    *)
(* with the bits of the input bytes that fall into it.                     *)
XorChunk(state, pos, chunk) ==
    [ lane \in 0 .. 24 |->
        Xor64(state[lane],
              UNION { BitsOf(chunk[i + 1], 8, 8 * ((pos + i) % 8)) :
                        i \in { j \in 0 .. Len(chunk) - 1 : (pos + j) \div 8 = lane } }) ]

ZeroState == [ i \in 0 .. 24 |-> {} ]

(* keccak_init(&ctx, rate, suffix) *)
keccak_init(rate, suffix) ==
    [ state |-> ZeroState, rate |-> rate, capacity |-> 1600 - rate, pos |-> 0,
      suffix |-> suffix ]

(* The padding of keccak_final, before its keccak_f1600 call. *)
keccak_final_padding(ctx) ==
    [ ctx EXCEPT !.state = XorStateByte(XorStateByte(ctx.state, ctx.pos, ctx.suffix),
                                        ctx.rate - 1, 128) ]

(* memcpy(output, state_bytes, outlen) for outlen <= rate *)
keccak_final_extract(ctx, outlen) == [ i \in 1 .. outlen |-> StateByte(ctx.state, i - 1) ]

expected_sha3_256 ==
    <<  58, 152,  93, 167,  79, 226,  37, 178,
         4,  92,  23,  45, 107, 211, 144, 189,
       133,  95,   8, 110,  62, 157,  82,  91,
        70, 191, 226,  69,  17,  67,  21,  50 >>

(* "abc" *)
test_input == << 97, 98, 99 >>

Repeated(byte, n) == [ i \in 1 .. n |-> byte ]

(* The inputs hashed: the empty string, "a", "abc", and inputs of one byte *)
(* less than the rate, the rate, and one byte more; each also behind a     *)
(* NULL input pointer.                                                     *)
HashInputs ==
    { <<>>, << 97 >>, test_input,
      Repeated(97, KECCAK_RATE_SHA3_256 - 1), Repeated(97, KECCAK_RATE_SHA3_256),
      Repeated(97, KECCAK_RATE_SHA3_256 + 1) }

InitHash ==
    /\ g_attestation_initialized = FALSE
    /\ g_attestation_ctx = CtxZero
    /\ tpm_state = TpmZero
    /\ clock \in DeviceClocks
    /\ stack_junk \in StackJunk
    /\ n_inits = 0
    /\ pc = "idle"
    /\ sgn = NoFrame
    /\ report = ZeroReport
    /\ ret = [op |-> "none", rc |-> PQC_SUCCESS]
    /\ vfy = NoVerify
    /\ kem = NoKem
    /\ \E input \in HashInputs, input_null \in BOOLEAN :
         keccak = [phase |-> "called", input |-> input, input_null |-> input_null]

hashOther == <<g_attestation_initialized, g_attestation_ctx, tpm_state, clock, stack_junk,
               n_inits, pc, sgn, report, vfy, kem>>

(* sha3_256_enhanced up to its keccak_update call. *)
Call_sha3_256_enhanced ==
    /\ keccak.phase = "called"
    /\ IF keccak.input_null
       THEN /\ keccak' = [keccak EXCEPT !.phase = "returned"]
            /\ ret' = [op |-> "sha3_256_enhanced", rc |-> PQC_ERROR_INVALID_PARAMETER]
       ELSE /\ keccak' = [phase |-> "keccak_update", input |-> keccak.input,
                          input_null |-> FALSE,
                          ctx |-> keccak_init(KECCAK_RATE_SHA3_256, 6),
                          rest |-> keccak.input, round |-> 0, caller |-> "none"]
            /\ ret' = [op |-> "sha3_256_enhanced", rc |-> "running"]
    /\ UNCHANGED hashOther

(* One iteration of the while loop of keccak_update, up to its keccak_f1600 call. *)
keccak_update_chunk ==
    /\ keccak.phase = "keccak_update"
    /\ Len(keccak.rest) > 0
    /\ LET ctx == keccak.ctx
           len == Len(keccak.rest)
           chunk == IF ctx.rate - ctx.pos < len THEN ctx.rate - ctx.pos ELSE len
           absorbed == [ctx EXCEPT !.state = XorChunk(ctx.state, ctx.pos,
                                                       SubSeq(keccak.rest, 1, chunk)),
                                   !.pos = ctx.pos + chunk]
       IN  keccak' = [keccak EXCEPT
                        !.ctx = absorbed,
                        !.rest = SubSeq(keccak.rest, chunk + 1, len),
                        !.phase = IF absorbed.pos = absorbed.rate
                                  THEN "keccak_f1600" ELSE "keccak_update",
                        !.caller = IF absorbed.pos = absorbed.rate
                                   THEN "keccak_update" ELSE "none",
                        !.round = 0]
    /\ UNCHANGED <<ret>>
    /\ UNCHANGED hashOther

(* keccak_update returns with len = 0; keccak_final pads and calls keccak_f1600. *)
keccak_final ==
    /\ keccak.phase = "keccak_update"
    /\ Len(keccak.rest) = 0
    /\ keccak' = [keccak EXCEPT !.ctx = keccak_final_padding(keccak.ctx),
                                !.phase = "keccak_f1600",
                                !.caller = "keccak_final",
                                !.round = 0]
    /\ UNCHANGED <<ret>>
    /\ UNCHANGED hashOther

(* One round of keccak_f1600.  After the last round control returns to the    *)
(* caller: keccak_update resets pos and loops; keccak_final copies 32 bytes   *)
(* out, and sha3_256_enhanced wipes the context and returns.                  *)
keccak_f1600 ==
    /\ keccak.phase = "keccak_f1600"
    /\ LET permuted == [keccak.ctx EXCEPT
                          !.state = keccak_f1600_round(keccak.ctx.state, keccak.round)]
       IN  IF keccak.round + 1 < KECCAK_ROUNDS
           THEN /\ keccak' = [keccak EXCEPT !.ctx = permuted, !.round = keccak.round + 1]
                /\ UNCHANGED <<ret>>
           ELSE IF keccak.caller = "keccak_update"
           THEN /\ keccak' = [keccak EXCEPT !.ctx = [permuted EXCEPT !.pos = 0],
                                            !.phase = "keccak_update",
                                            !.caller = "none", !.round = 0]
                /\ UNCHANGED <<ret>>
           ELSE /\ keccak' = [phase |-> "returned", input |-> keccak.input,
                              input_null |-> FALSE,
                              hash |-> keccak_final_extract(permuted, 32)]
                /\ ret' = [op |-> "sha3_256_enhanced", rc |-> PQC_SUCCESS]
    /\ UNCHANGED hashOther

NextHash ==
    \/ Call_sha3_256_enhanced
    \/ keccak_update_chunk
    \/ keccak_final
    \/ keccak_f1600

SpecHash == InitHash /\ [][NextHash]_vars

(* C20: SHA3-256 of the three ASCII bytes "abc" is                         *)
(* 3a985da7 4fe225b2 045c172d 6bd390bd 855f086e 3e9d525b 46bfe245 11431532: *)
(* when sha3_256_enhanced has returned for the input "abc", the 32 bytes   *)
(* it wrote are the bytes hash_self_test compares them with.               *)
C20_Sha3AbcDigest ==
    (keccak.phase = "returned" /\ ~keccak.input_null /\ keccak.input = test_input)
        => /\ ret.rc = PQC_SUCCESS
           /\ keccak.hash = expected_sha3_256


----------------------------------------------------------------------------
(* Barrett reduction of the KEM: kyber.c *)

KYBER_Q == 3329

\* uint32_t t = ((uint32_t)a * 5039) >> 23; return a - (uint16_t)(t * KYBER_Q);
\* the difference is converted to uint16_t by the return.
barrett_reduce(a) ==
    LET t == (a * 5039) \div 2^23
    IN  (a - ((t * KYBER_Q) % 2^16)) % 2^16

\* the arguments passed: every value of [0, 2q)
BarrettInputs == 0 .. 2 * KYBER_Q - 1

InitBarrett ==
    /\ g_attestation_initialized = FALSE
    /\ g_attestation_ctx = CtxZero
    /\ tpm_state = TpmZero
    /\ clock \in DeviceClocks
    /\ stack_junk \in StackJunk
    /\ n_inits = 0
    /\ keccak = NoKeccak
    /\ pc = "idle"
    /\ sgn = NoFrame
    /\ report = ZeroReport
    /\ ret = [op |-> "none", rc |-> PQC_SUCCESS]
    /\ vfy = NoVerify
    /\ \E a \in BarrettInputs : kem = [stage |-> "argument", a |-> a]

Call_barrett_reduce ==
    /\ kem.stage = "argument"
    /\ kem' = [stage |-> "reduced", a |-> kem.a, r |-> barrett_reduce(kem.a)]
    /\ UNCHANGED ret
    /\ UNCHANGED kemOther

NextBarrett == Call_barrett_reduce

SpecBarrett == InitBarrett /\ [][NextBarrett]_vars

(* C26: the Barrett reduction maps every a in [0, 2q), q = 3329, to a value *)
(* of [0, q) that is congruent to a modulo q.                              *)
C26_BarrettRange ==
    kem.stage = "reduced" =>
        /\ kem.r \in 0 .. KYBER_Q - 1
        /\ kem.r % KYBER_Q = kem.a % KYBER_Q


----------------------------------------------------------------------------
(* The sponge under its callers' sequences of absorb calls: keccak_init *)
(* followed by keccak_update calls, as the SHA-3 and SHAKE wrappers and *)
(* the salted and keyed hashes of cryptoHash.c make them.               *)

KECCAK_RATE_SHA3_512 == 72
KECCAK_RATE_SHAKE128 == 168
KECCAK_RATE_SHAKE256 == 136

MaxAbsorbs == 2         \* keccak_update calls after one keccak_init

\* rate and suffix as the wrappers pass them to keccak_init
SpongeVariants ==
    { <<KECCAK_RATE_SHA3_256, 6>>, <<KECCAK_RATE_SHA3_512, 6>>,
      <<KECCAK_RATE_SHAKE128, 31>>, <<KECCAK_RATE_SHAKE256, 31>> }

\* lengths of the inputs of keccak_update: none, one byte, and around a block
AbsorbLengths(rate) == { 0, 1, rate - 1, rate, rate + 1 }

InitSponge ==
    /\ g_attestation_initialized = FALSE
    /\ g_attestation_ctx = CtxZero
    /\ tpm_state = TpmZero
    /\ clock \in DeviceClocks
    /\ stack_junk \in StackJunk
    /\ n_inits = 0
    /\ pc = "idle"
    /\ sgn = NoFrame
    /\ report = ZeroReport
    /\ ret = [op |-> "none", rc |-> PQC_SUCCESS]
    /\ vfy = NoVerify
    /\ kem = NoKem
    /\ keccak = [phase |-> "declared"]

Call_keccak_init ==
    /\ keccak.phase = "declared"
    /\ \E variant \in SpongeVariants :
         keccak' = [phase |-> "keccak_update", input |-> <<>>, input_null |-> FALSE,
                    ctx |-> keccak_init(variant[1], variant[2]),
                    rest |-> <<>>, round |-> 0, caller |-> "none", calls |-> 0]
    /\ UNCHANGED <<ret>>
    /\ UNCHANGED hashOther

\* The entry of a keccak_update call once the previous one has returned; its
\* loop is keccak_update_chunk, and keccak_f1600 when a block is complete.
Call_keccak_update ==
    /\ keccak.phase = "keccak_update"
    /\ Len(keccak.rest) = 0
    /\ keccak.calls < MaxAbsorbs
    /\ \E len \in AbsorbLengths(keccak.ctx.rate) :
         keccak' = [keccak EXCEPT !.input = Repeated(97, len),
                                  !.rest = Repeated(97, len),
                                  !.calls = @ + 1]
    /\ UNCHANGED <<ret>>
    /\ UNCHANGED hashOther

NextSponge ==
    \/ Call_keccak_init
    \/ Call_keccak_update
    \/ keccak_update_chunk
    \/ keccak_f1600

SpecSponge == InitSponge /\ [][NextSponge]_vars

\* keccak_init has run and no keccak_update call is in progress
BetweenAbsorbs == keccak.phase = "keccak_update" /\ Len(keccak.rest) = 0

(* C24: after keccak_init with a rate of the four variants and any sequence *)
(* of keccak_update calls, the cursor satisfies 0 <= pos < rate and the     *)
(* stored rate and capacity add up to 200.                                  *)
C24_SpongeInvariant ==
    BetweenAbsorbs =>
        /\ keccak.ctx.pos \in 0 .. keccak.ctx.rate - 1
        /\ keccak.ctx.rate + keccak.ctx.capacity = 200


----------------------------------------------------------------------------
(* C22: every signature written by dilithium_sign is 4595 bytes long: a    *)
(* build that has entered the signing loop returns with a report whose     *)
(* signature_length is DILITHIUM_SIGNATUREBYTES, the size of its signature *)
(* field.                                                                  *)
C22_SignatureLength ==
    BuildRunning ~> (BuildReturned /\ report.signature_length = DILITHIUM_SIGNATUREBYTES)


----------------------------------------------------------------------------
(* The z check of a signing trial *)

\* the magnitude of a uint32_t coefficient read as a signed 32-bit value
SignedMagnitude(z) == IF z[2] >= Limb \div 2 THEN SubLimbs(U32(0), z, 0) ELSE z

\* the infinity norm of the coefficient is at least gamma1 - beta
NormTooLarge(z) == LeLimbs(U32(DILITHIUM_GAMMA1 - DILITHIUM_BETA), SignedMagnitude(z))

(* C25: in a signing trial the z check restarts the trial exactly when the *)
(* coefficient of z = y + c*s1 has infinity norm >= gamma1 - beta: for     *)
(* every y and c*s1 a trial of the running loop can see, the check fires   *)
(* if and only if the magnitude of z, read as a signed value, is at least  *)
(* gamma1 - beta.                                                          *)
C25_ZNormCheck ==
    pc = "sign" =>
        \A t \in GammaDraws, cs1 \in Cs1Coeffs :
            LET z == AddLimbs(poly_uniform_gamma1(t), cs1, 0)
            IN  ZOutOfRange(z) <=> NormTooLarge(z)


----------------------------------------------------------------------------
(* The measurement log *)

(* C23: the measurement log is bounded and append-only: its count never    *)
(* exceeds 256, a collect leaves every entry below the previous count in   *)
(* place and does not decrease the count, and only cleanup makes the count *)
(* smaller.                                                                *)
C23_LogAppendOnly ==
    [][LET old == g_attestation_ctx.measurement_log
           new == g_attestation_ctx'.measurement_log
       IN  /\ old.count <= MAX_MEASUREMENT_LOG_ENTRIES
           /\ new.count <= MAX_MEASUREMENT_LOG_ENTRIES
           /\ attestation_collect_measurements
                => /\ new.count >= old.count
                   /\ SubSeq(new.measurements, 1, old.count) = old.measurements
           /\ new.count < old.count => attestation_cleanup]_vars

\* A collect has returned on a log that was already full: the log holds 256
\* entries, the first of them the firmware entry of the first collect, and
\* the registers have been extended more often than the log has entries.
C23_Witness ==
    /\ g_attestation_initialized
    /\ ret.op = "attestation_collect_measurements"
    /\ ret.rc = PQC_SUCCESS
    /\ g_attestation_ctx.measurement_log.count = MAX_MEASUREMENT_LOG_ENTRIES
    /\ g_attestation_ctx.measurement_log.measurements[1].pcr_index = PCR_FIRMWARE_HASH
    /\ 5 * tpm_state.extend_count[PCR_DEVICE_ID] > MAX_MEASUREMENT_LOG_ENTRIES + 5


----------------------------------------------------------------------------
(* Init on an initialised engine *)

(* C30: attestation_init on an already initialised context returns success *)
(* and leaves the whole context unchanged, whatever configuration it is    *)
(* passed: configuration, device information, key pair, PCR values and     *)
(* flags, the bank's registers and extend counters, and the log.           *)
C30_InitIdempotent ==
    [][(attestation_init /\ g_attestation_initialized /\ ~ret'.config_null)
       => /\ ret'.rc = PQC_SUCCESS
          /\ g_attestation_initialized'
          /\ g_attestation_ctx' = g_attestation_ctx
          /\ tpm_state' = tpm_state
          /\ n_inits' = n_inits]_vars

\* An init has returned success on an engine that holds measurements and
\* whose TPM was shut down under it: a first init would have started the TPM
\* and emptied the log.
C30_Witness ==
    /\ g_attestation_initialized
    /\ ret = [op |-> "attestation_init", rc |-> PQC_SUCCESS, config_null |-> FALSE]
    /\ g_attestation_ctx.measurement_log.count > 0
    /\ ~tpm_state.initialized


----------------------------------------------------------------------------
(* A new session after cleanup *)

\* an init that initialises the engine (the first, or one after a cleanup)
InitStep == attestation_init /\ ~g_attestation_initialized /\ g_attestation_initialized'

\* The key pair is the one dilithium_keypair generates into a clear buffer.
FreshKeypair(keypair) ==
    \E seed \in Seeds :
        LET kp == dilithium_keypair(ZeroPk, seed, stack_junk)
        IN  keypair = [pk |-> kp.pk, sk |-> kp.sk]

(* C29: after cleanup followed by init(config) the context carries nothing *)
(* of the previous session: the device serial is the one of the new config *)
(* (also when it is empty), the log is empty, every PCR value and extend   *)
(* counter is zero with the validity flags false, and the device key pair  *)
(* is freshly generated.                                                   *)
C29_FreshSession ==
    [][InitStep
       => /\ g_attestation_ctx'.device_info.serial_number
                = g_attestation_ctx'.config.device_serial
          /\ g_attestation_ctx'.measurement_log.count = 0
          /\ g_attestation_ctx'.measurement_log.measurements = <<>>
          /\ \A i \in PcrIndex :
               /\ g_attestation_ctx'.pcr_values[i] = Zero32
               /\ ~g_attestation_ctx'.pcr_valid[i]
               /\ tpm_state'.pcr_values[i] = Zero32
               /\ tpm_state'.extend_count[i] = 0
          /\ FreshKeypair(g_attestation_ctx'.device_keypair)]_vars


----------------------------------------------------------------------------
(* Replaying the measurement log *)

\* the values of the log entries for register i, in log order
LoggedValues(i) ==
    LET entries == SelectSeq(g_attestation_ctx.measurement_log.measurements,
                             LAMBDA e : e.pcr_index = i)
    IN  [k \in 1 .. Len(entries) |-> entries[k].measurement_value]

(* C28: after init and any number of collects the measurement log replays  *)
(* to the PCR bank: for every register i the number of log entries with    *)
(* pcr_index = i is the extend counter of i, and folding                   *)
(* SHA3-256(prev || value) over those entries in log order from 32 zero    *)
(* bytes gives the value the bank holds for i.                             *)
C28_LogReplay ==
    g_attestation_initialized =>
        \A i \in PcrIndex :
            /\ Len(LoggedValues(i)) = tpm_state.extend_count[i]
            /\ HashChain(LoggedValues(i)) = tpm_state.pcr_values[i]


----------------------------------------------------------------------------
(* The engine with its read-out operations and the TPM's maintenance calls *)

MaxSessionCollects == 2     \* collects per session in this specification
MaxSelfTests == 1           \* successful TPM self-tests

\* A read-out of the PCR cache that checks only its argument.
attestation_get_pcr_values_unchecked ==
    /\ pc = "idle"
    /\ \E pcr_values_null \in BOOLEAN :
         IF pcr_values_null
         THEN ret' = [op |-> "attestation_get_pcr_values", rc |-> PQC_ERROR_INVALID_PARAMETER]
         ELSE ret' = [op |-> "attestation_get_pcr_values", rc |-> PQC_SUCCESS,
                      pcr_values |-> [i \in PcrIndex |->
                                        IF g_attestation_ctx.pcr_valid[i]
                                        THEN g_attestation_ctx.pcr_values[i] ELSE Zero32]]
    /\ UNCHANGED <<g_attestation_initialized, g_attestation_ctx, tpm_state, clock, stack_junk,
                   n_inits, pc, sgn, report, vfy, kem, keccak>>

attestation_get_pcr_values ==
    /\ pc = "idle"
    /\ \E pcr_values_null \in BOOLEAN :
         IF pcr_values_null \/ ~g_attestation_initialized
         THEN ret' = [op |-> "attestation_get_pcr_values", rc |-> PQC_ERROR_INVALID_PARAMETER]
         ELSE ret' = [op |-> "attestation_get_pcr_values", rc |-> PQC_SUCCESS,
                      pcr_values |-> [i \in PcrIndex |->
                                        IF g_attestation_ctx.pcr_valid[i]
                                        THEN g_attestation_ctx.pcr_values[i] ELSE Zero32]]
    /\ UNCHANGED <<g_attestation_initialized, g_attestation_ctx, tpm_state, clock, stack_junk,
                   n_inits, pc, sgn, report, vfy, kem, keccak>>

attestation_get_measurement_log ==
    /\ pc = "idle"
    /\ \E log_null \in BOOLEAN :
         IF log_null \/ ~g_attestation_initialized
         THEN ret' = [op |-> "attestation_get_measurement_log",
                      rc |-> PQC_ERROR_INVALID_PARAMETER]
         ELSE ret' = [op |-> "attestation_get_measurement_log", rc |-> PQC_SUCCESS,
                      log |-> g_attestation_ctx.measurement_log]
    /\ UNCHANGED <<g_attestation_initialized, g_attestation_ctx, tpm_state, clock, stack_junk,
                   n_inits, pc, sgn, report, vfy, kem, keccak>>

Call_tpm2_self_test ==
    /\ pc = "idle"
    /\ tpm_state.next_handle < MaxSelfTests
    /\ tpm_state' = tpm2_self_test(tpm_state).tpm
    /\ ret' = [op |-> "tpm2_self_test", rc |-> tpm2_self_test(tpm_state).rc]
    /\ UNCHANGED tpmOther

\* attestation_collect_measurements, as long as the session's log is short
SessionCollect ==
    /\ g_attestation_ctx.measurement_log.count < 5 * MaxSessionCollects
    /\ attestation_collect_measurements

NextSession ==
    \/ attestation_init
    \/ SessionCollect
    \/ attestation_generate_report
    \/ attestation_get_device_certificate
    \/ dilithium_sign_iteration
    \/ attestation_get_pcr_values
    \/ attestation_get_measurement_log
    \/ Call_tpm2_reset_pcr
    \/ Call_tpm2_self_test
    \/ attestation_cleanup

SpecSession == Init /\ [][NextSession]_vars


\* a step of one of the five operations that need an initialised engine
RequiresInit ==
    \/ attestation_collect_measurements
    \/ attestation_generate_report
    \/ attestation_get_pcr_values
    \/ attestation_get_measurement_log
    \/ attestation_get_device_certificate

(* C21: collect, build_report, get_pcr_values, get_measurement_log and     *)
(* get_device_certificate, called before a successful init or after        *)
(* cleanup, return the invalid-parameter error and change nothing in the   *)
(* context, the PCR bank or the measurement log.                           *)
C21_UninitialisedCalls ==
    [][(RequiresInit /\ ~g_attestation_initialized)
       => /\ ret'.rc = PQC_ERROR_INVALID_PARAMETER
          /\ ~g_attestation_initialized'
          /\ g_attestation_ctx' = g_attestation_ctx
          /\ tpm_state' = tpm_state
          /\ pc' = "idle"]_vars

\* A read-out of the log was refused after the cleanup of a session whose
\* device information is still in the context.
C21_Witness ==
    /\ ~g_attestation_initialized
    /\ n_inits > 0
    /\ g_attestation_ctx.device_info.firmware_version = 1
    /\ ret = [op |-> "attestation_get_measurement_log", rc |-> PQC_ERROR_INVALID_PARAMETER]


(* C27: in an initialised engine the cached value of every register whose  *)
(* cache entry is valid equals the PCR bank's value of that register,      *)
(* through init, collect, report building, PCR reset, the TPM self test    *)
(* and cleanup.                                                            *)
C27_CacheMatchesBank ==
    g_attestation_initialized =>
        \A i \in PcrIndex :
            g_attestation_ctx.pcr_valid[i] =>
                g_attestation_ctx.pcr_values[i] = tpm_state.pcr_values[i]


====
